---- MODULE Spec2Model ----
(***************************************************************************)
(* X402PaymentServer (src/src/server/index.ts): the HTTP 402 payment       *)
(* verifier, its commitment ledger and the periodic merchant withdrawal.   *)
(*                                                                         *)
(* Node runs every callback to its first await without interleaving, so a  *)
(* request handler (middleware -> verifyPayment, which awaits nothing) is  *)
(* one atomic step, and processMerchantWithdrawals is two: the part up to  *)
(* `await merchantClient.withdraw(...)`, and the continuation after the    *)
(* provider's promise settles.                                             *)
(***************************************************************************)
EXTENDS Integers, FiniteSets, Sequences, TLC

VARIABLES
    network,            \* this.network
    merchantClient,     \* this.merchantClient ("PrivacyCash" or "null")
    usedCommitments,    \* this.usedCommitments : Set<string>
    pendingPayments,    \* this.pendingPayments : Map<string, PendingPayment>
    withdrawalInterval, \* this.withdrawalInterval: "active" or "cleared"
    inflight,           \* async invocations suspended at their await: one withdraw()
                        \* promise per suspended tick
    now,                \* Date.now()
    last,               \* the handler that ran last, with its input and its result
    hist,               \* per commitment: what the requests presenting it got so far
    nRequests,          \* requests handled so far
    nTicks,             \* timer ticks fired so far
    servers,            \* the X402PaymentServer instances built besides this one
    handlers,           \* the request handlers their middleware() calls returned
    client,             \* the fields of the X402PaymentClient, once one is built
    sessions            \* paymentSessions: the store of ephemeral payment sessions

vars == <<network, merchantClient, usedCommitments, pendingPayments,
          withdrawalInterval, inflight, now, last, hist, nRequests, nTicks,
          servers, handlers, client, sessions>>

ledger == <<usedCommitments, pendingPayments>>

----------------------------------------------------------------------------
(* Bounds of the model *)

MaxRequests == 3
MaxTicks == 2
MaxVerifyRequests == 2
\* ticks whose withdraw call may fail, fewer than MaxTicks
MaxFailures == 1
\* the longest text of a payload the codec is run on
MaxTextLen == 1
\* X402PaymentServer instances built, and handlers obtained from them
MaxServers == 2
MaxHandlers == 3
\* requests served and ticks fired in the specification of several servers
MaxRouteRequests == 2
MaxInstanceTicks == 1
\* calls of the client's methods
MaxClientCalls == 3

(* Program constants *)

\* config.apiPrice, in lamports (the examples' default)
ApiPrice == 10000000
\* BALANCE_PROOF_VALIDITY_MS (utils/constants): the proof's validity, 5 minutes
BALANCE_PROOF_VALIDITY_MS == 300000
\* startWithdrawalProcessor: setInterval(..., 5 * 60 * 1000)
WithdrawalIntervalMs == 300000
\* the clock's value when the server is constructed
StartTime == 1000000

----------------------------------------------------------------------------
(* Values *)

\* a header that was not sent, a member a JSON object lacks
Undefined == "undefined"

Commitments == {"c1", "c2"}
Wallets == {"w1", "w2"}
MerchantWallet == "merchantWallet"

RpcUrls == {"https://api.devnet.solana.com", "https://api.mainnet-beta.solana.com"}

\* config.rpcUrl.includes('devnet') ? 'devnet' : 'mainnet-beta'
NetworkOf(rpcUrl) ==
    IF rpcUrl = "https://api.devnet.solana.com" THEN "devnet" ELSE "mainnet-beta"

\* crypto.createHash('sha256').update(note).digest('hex'): distinct notes of the
\* model have distinct digests
hashNote(note) ==
    CASE note = "c1" -> "sha256:c1-digest"
      [] note = "c2" -> "sha256:c2-digest"
      [] OTHER -> "sha256:other-digest"

----------------------------------------------------------------------------
(* Requests.  A JSON object is a record; a member it lacks is a field the  *)
(* record lacks.  The X-Payment header is modelled by what                 *)
(* JSON.parse(Buffer.from(h, 'base64').toString('utf8')) makes of it.      *)

Get(obj, member) == IF member \in DOMAIN obj THEN obj[member] ELSE Undefined

\* the balanceProof blobs of the model: not JSON, or a proof that is fresh or
\* expired at time t, of a balance that covers the price or does not
BalanceProofs(t) ==
    {[type |-> "notJSON"]}
    \cup {[type |-> "object", balance |-> b, timestamp |-> ts, wallet |-> "w1"] :
            b \in {ApiPrice - 1, ApiPrice},
            ts \in {t - BALANCE_PROOF_VALIDITY_MS - 1, t}}

\* the balanceProof the client builds (generateBalanceProof) from its balance
FreshProof(balance, t) ==
    [type |-> "object", balance |-> balance, timestamp |-> t, wallet |-> "w1"]

PaymentObject(scheme, net, noteHash, c, t, proof) ==
    [type |-> "object", x402Version |-> 1, scheme |-> scheme, network |-> net,
     payload |-> [noteHash |-> noteHash, commitment |-> c, timestamp |-> t,
                  balanceProof |-> proof]]

AbsentHeader == [type |-> "absent"]
\* X-Payment sent with no value: req.header returns ''
EmptyHeader == [type |-> "empty"]
NotJSON == [type |-> "notJSON"]
JSONNull == [type |-> "null"]
JSONNumber == [type |-> "number"]

Request(xPayment, commitment, walletAddress) ==
    [xPayment |-> xPayment, commitment |-> commitment, walletAddress |-> walletAddress]

Schemes == {"privacycash", "exact"}
Networks == {"solana-devnet", "solana-mainnet-beta"}
NoteHashes == {hashNote(c) : c \in Commitments}

\* every request of the model: each member of the payload ranges over its
\* values independently of the others
AllRequests(t) ==
    {Request(x, c, w) :
        x \in {AbsentHeader, EmptyHeader, NotJSON, JSONNull, JSONNumber}
              \cup {[type |-> "object", scheme |-> s, network |-> n] :
                        s \in Schemes, n \in Networks}
              \cup {PaymentObject(s, n, h, "c1", t, p) :
                        s \in Schemes, n \in Networks, h \in NoteHashes,
                        p \in BalanceProofs(t)},
        c \in Commitments \cup {Undefined},
        w \in {"w1", Undefined}}

\* the requests of the ledger's specification: a well-formed payment for
\* commitment c from any wallet, or one from w1 with one thing wrong
Deviations ==
    {"none", "noHeader", "notJSON", "scheme", "network", "noWallet", "noCommitment",
     "noteHash", "expired", "balance"}

OtherCommitment(c) == CHOOSE d \in Commitments : d # c

Deviant(c, w, t, dev) ==
    LET proof == CASE dev = "expired" ->
                        FreshProof(ApiPrice, t - BALANCE_PROOF_VALIDITY_MS - 1)
                   [] dev = "balance" -> FreshProof(ApiPrice - 1, t)
                   [] OTHER -> FreshProof(ApiPrice, t)
        obj == PaymentObject(IF dev = "scheme" THEN "exact" ELSE "privacycash",
                             IF dev = "network" THEN "solana-testnet"
                                                ELSE "solana-" \o network,
                             IF dev = "noteHash" THEN hashNote(OtherCommitment(c))
                                                 ELSE hashNote(c),
                             c, t, proof)
    IN Request(CASE dev = "noHeader" -> AbsentHeader
                 [] dev = "notJSON" -> NotJSON
                 [] OTHER -> obj,
               IF dev = "noCommitment" THEN Undefined ELSE c,
               IF dev = "noWallet" THEN Undefined ELSE w)

LedgerRequests(t) ==
    {Deviant(c, w, t, "none") : c \in Commitments, w \in Wallets}
    \cup {Deviant(c, "w1", t, dev) : c \in Commitments, dev \in Deviations}

----------------------------------------------------------------------------
(* Errors (src/src/server/index.ts, X402Error and its subclasses) *)

Ok == [result |-> "Ok"]

\* X402Error.toJSON(), which NetworkMismatchError inherits
X402ErrorToJSON(error) ==
    [error |-> error.message, code |-> error.code, statusCode |-> error.statusCode]

InvalidPaymentError(reason) ==
    [result |-> "InvalidPayment", message |-> "Invalid payment: " \o reason,
     code |-> "INVALID_PAYMENT", statusCode |-> 400, reason |-> reason]

NetworkMismatchError(expected, received) ==
    [result |-> "NetworkMismatch",
     message |-> "Network mismatch. Expected: " \o expected \o ", Received: " \o received,
     code |-> "NETWORK_MISMATCH", statusCode |-> 400,
     expected |-> expected, received |-> received]

DoubleSpendError(commitment) ==
    [result |-> "DoubleSpend",
     message |-> "Commitment already used. This payment has already been redeemed.",
     code |-> "DOUBLE_SPEND", statusCode |-> 402, commitment |-> commitment]

InsufficientBalanceError(required) ==
    [result |-> "InsufficientBalance",
     message |-> "Insufficient private balance. Required: " \o ToString(required)
                 \o " lamports, Available: 0 lamports",
     code |-> "INSUFFICIENT_BALANCE", statusCode |-> 402,
     required |-> required, available |-> 0]

\* String.prototype.substring(0, end)
substring(str, end) == IF Len(str) <= end THEN str ELSE SubSeq(str, 1, end)

\* what res.json sends of an X402Error: its class's toJSON()
toJSON(error) ==
    CASE error.result = "InvalidPayment" ->
            [error |-> error.message, code |-> error.code,
             statusCode |-> error.statusCode, reason |-> error.reason]
      [] error.result = "DoubleSpend" ->
            [error |-> error.message, code |-> error.code,
             statusCode |-> error.statusCode,
             commitment |-> substring(error.commitment, 20) \o "...",
             hint |-> "Generate a new payment commitment"]
      [] error.result = "InsufficientBalance" ->
            [error |-> error.message, code |-> error.code,
             statusCode |-> error.statusCode,
             required |-> error.required, available |-> error.available,
             hint |-> "Please deposit more SOL into Privacy Cash pool"]
      [] OTHER -> X402ErrorToJSON(error)

\* a TypeError thrown by reading a member of null or undefined: no X402Error
TypeError == [result |-> "TypeError"]

Rejections == {"InvalidPayment", "NetworkMismatch", "DoubleSpend", "InsufficientBalance"}

----------------------------------------------------------------------------
(* Verification *)

\* the try block of verifyBalance at Date.now() = t: what it returns, or that it
\* throws.  Buffer.from of undefined and JSON.parse of text that is no JSON throw,
\* and so does reading a member of null; a member that is missing (every member
\* of a JSON number) reads undefined, and a comparison with undefined is a
\* comparison with NaN: false.
tryVerifyBalance(balanceProof, required, t) ==
    IF balanceProof.type \in {"undefined", "notJSON", "null"}
    THEN "throws"
    ELSE IF "timestamp" \in DOMAIN balanceProof
            /\ t - balanceProof.timestamp > BALANCE_PROOF_VALIDITY_MS
         THEN "false"
         ELSE IF "balance" \in DOMAIN balanceProof /\ balanceProof.balance < required
              THEN "false"
              ELSE "true"

\* a freshness check that rejects at the end of the window: >= for >
verifyBalanceClosedWindow(balanceProof, required, t) ==
    /\ tryVerifyBalance(balanceProof, required, t) = "true"
    /\ ("timestamp" \in DOMAIN balanceProof =>
            t - balanceProof.timestamp # BALANCE_PROOF_VALIDITY_MS)

\* a freshness check that is two-sided: a proof stamped after the server's clock
\* is refused
verifyBalanceTwoSided(balanceProof, required, t) ==
    /\ tryVerifyBalance(balanceProof, required, t) = "true"
    /\ ("timestamp" \in DOMAIN balanceProof => t - balanceProof.timestamp >= 0)

\* a check that spends the proof: each payment granted so far is taken off the
\* balance the proof claims
verifyBalanceSpendsProof(balanceProof, required, t) ==
    /\ tryVerifyBalance(balanceProof, required, t) = "true"
    /\ ("balance" \in DOMAIN balanceProof =>
            balanceProof.balance >= required * (Cardinality(usedCommitments) + 1))

\* verifyBalance(balanceProof, required): the catch block returns false
verifyBalance(balanceProof, required, t) ==
    tryVerifyBalance(balanceProof, required, t) = "true"

\* a verification that also requires the payload's embedded commitment to be
\* the one of the X-Privacy-Commitment header
verifyPaymentBindsPayload(req, used, t) ==
    LET decoded == req.xPayment
        commitment == req.commitment
        walletAddress == req.walletAddress
        expectedNetwork == "solana-" \o network
    IN  IF decoded.type \in {"notJSON", "empty"}
        THEN InvalidPaymentError("Invalid X-Payment header encoding")
        ELSE IF decoded.type = "null"
        THEN TypeError
        ELSE IF Get(decoded, "scheme") # "privacycash"
        THEN InvalidPaymentError("Invalid payment scheme: " \o Get(decoded, "scheme"))
        ELSE IF Get(decoded, "network") # expectedNetwork
        THEN NetworkMismatchError(expectedNetwork, Get(decoded, "network"))
        ELSE IF commitment = Undefined \/ walletAddress = Undefined
        THEN InvalidPaymentError("Missing X-Privacy-Commitment or X-Wallet-Address header")
        ELSE IF "payload" \notin DOMAIN decoded
        THEN TypeError
        ELSE IF hashNote(commitment) # Get(decoded.payload, "noteHash")
        THEN InvalidPaymentError("Commitment hash mismatch")
        ELSE IF Get(decoded.payload, "commitment") # commitment
        THEN InvalidPaymentError("Commitment mismatch")
        ELSE IF commitment \in used
        THEN DoubleSpendError(commitment)
        ELSE IF ~verifyBalance(decoded.payload.balanceProof, ApiPrice, t)
        THEN InsufficientBalanceError(ApiPrice)
        ELSE Ok

\* verifyPayment looking the commitment up in the pending map, not the used set
verifyPaymentPendingLookup(req, used, t) ==
    LET decoded == req.xPayment
        expectedNetwork == "solana-" \o network
    IN  IF decoded.type \in {"notJSON", "empty"}
        THEN InvalidPaymentError("Invalid X-Payment header encoding")
        ELSE IF decoded.type = "null"
        THEN TypeError
        ELSE IF Get(decoded, "scheme") # "privacycash"
        THEN InvalidPaymentError("Invalid payment scheme: " \o Get(decoded, "scheme"))
        ELSE IF Get(decoded, "network") # expectedNetwork
        THEN NetworkMismatchError(expectedNetwork, Get(decoded, "network"))
        ELSE IF req.commitment = Undefined \/ req.walletAddress = Undefined
        THEN InvalidPaymentError("Missing X-Privacy-Commitment or X-Wallet-Address header")
        ELSE IF "payload" \notin DOMAIN decoded
        THEN TypeError
        ELSE IF hashNote(req.commitment) # Get(decoded.payload, "noteHash")
        THEN InvalidPaymentError("Commitment hash mismatch")
        ELSE IF req.commitment \in DOMAIN pendingPayments
        THEN DoubleSpendError(req.commitment)
        ELSE IF ~verifyBalance(decoded.payload.balanceProof, ApiPrice, t)
        THEN InsufficientBalanceError(ApiPrice)
        ELSE Ok

\* verifyPayment without the comparison of the commitment's hash with noteHash
verifyPaymentNoHashCheck(req, used, t) ==
    LET decoded == req.xPayment
        expectedNetwork == "solana-" \o network
    IN  IF decoded.type \in {"notJSON", "empty"}
        THEN InvalidPaymentError("Invalid X-Payment header encoding")
        ELSE IF decoded.type = "null"
        THEN TypeError
        ELSE IF Get(decoded, "scheme") # "privacycash"
        THEN InvalidPaymentError("Invalid payment scheme: " \o Get(decoded, "scheme"))
        ELSE IF Get(decoded, "network") # expectedNetwork
        THEN NetworkMismatchError(expectedNetwork, Get(decoded, "network"))
        ELSE IF req.commitment = Undefined \/ req.walletAddress = Undefined
        THEN InvalidPaymentError("Missing X-Privacy-Commitment or X-Wallet-Address header")
        ELSE IF "payload" \notin DOMAIN decoded
        THEN TypeError
        ELSE IF req.commitment \in used
        THEN DoubleSpendError(req.commitment)
        ELSE IF ~verifyBalance(decoded.payload.balanceProof, ApiPrice, t)
        THEN InsufficientBalanceError(ApiPrice)
        ELSE Ok

\* verifyPayment's checks in the order of the code: what it throws, or Ok
verifyPayment(req, used, t) ==
    LET decoded == req.xPayment
        commitment == req.commitment
        walletAddress == req.walletAddress
        expectedNetwork == "solana-" \o network
    IN  IF decoded.type \in {"notJSON", "empty"}
        THEN InvalidPaymentError("Invalid X-Payment header encoding")
        ELSE IF decoded.type = "null"
        THEN TypeError
        ELSE IF Get(decoded, "scheme") # "privacycash"
        THEN InvalidPaymentError("Invalid payment scheme: " \o Get(decoded, "scheme"))
        ELSE IF Get(decoded, "network") # expectedNetwork
        THEN NetworkMismatchError(expectedNetwork, Get(decoded, "network"))
        ELSE IF commitment = Undefined \/ walletAddress = Undefined
        THEN InvalidPaymentError("Missing X-Privacy-Commitment or X-Wallet-Address header")
        ELSE IF "payload" \notin DOMAIN decoded
        THEN TypeError
        ELSE IF hashNote(commitment) # Get(decoded.payload, "noteHash")
        THEN InvalidPaymentError("Commitment hash mismatch")
        ELSE IF commitment \in used
        THEN DoubleSpendError(commitment)
        ELSE IF ~verifyBalance(decoded.payload.balanceProof, ApiPrice, t)
        THEN InsufficientBalanceError(ApiPrice)
        ELSE Ok

\* the entry with the commitment in the place of the payer's wallet
PendingPaymentWrongPayer(commitment, walletAddress, t) ==
    [commitment |-> commitment, amount |-> ApiPrice, userWallet |-> commitment,
     timestamp |-> t, verified |-> TRUE]

\* the entry verifyPayment queues for the merchant withdrawal
PendingPayment(commitment, walletAddress, t) ==
    [commitment |-> commitment, amount |-> ApiPrice, userWallet |-> walletAddress,
     timestamp |-> t, verified |-> TRUE]

\* the commitment is not recorded
AddCommitmentLost(used, commitment) == used

\* this.usedCommitments.add(commitment)
AddCommitment(used, commitment) == used \cup {commitment}

\* this.pendingPayments.set(commitment, {...})
SetPending(pending, commitment, walletAddress, t) ==
    [k \in DOMAIN pending \cup {commitment} |->
        IF k = commitment THEN PendingPayment(commitment, walletAddress, t)
                          ELSE pending[k]]

\* a quote whose amount grows with the number of commitments used
generateQuoteSurge ==
    [payment |-> [recipientWallet |-> MerchantWallet, tokenSymbol |-> "SOL",
                  amount |-> ApiPrice * (1 + Cardinality(usedCommitments)),
                  cluster |-> network],
     message |-> "Payment required. Deposit into Privacy Cash pool and provide payment proof."]

\* generateQuote(); the four lines of instructions, fixed text, are left out
generateQuote ==
    [payment |-> [recipientWallet |-> MerchantWallet, tokenSymbol |-> "SOL",
                  amount |-> ApiPrice, cluster |-> network],
     message |-> "Payment required. Deposit into Privacy Cash pool and provide payment proof."]

\* what the middleware does with verifyPayment's result: next(), or the response
Respond(outcome) ==
    CASE outcome.result = "Ok" -> [next |-> TRUE, status |-> 0]
      [] outcome.result = "TypeError" ->
            [next |-> FALSE, status |-> 500,
             body |-> [error |-> "Payment verification failed"]]
      [] OTHER -> [next |-> FALSE, status |-> outcome.statusCode,
                   body |-> toJSON(outcome)]

----------------------------------------------------------------------------
(* What the requests presenting one commitment got so far *)

\* the request is a payment for its commitment with nothing wrong but, possibly,
\* the commitment having been used: what a client's generatePayment sends while
\* its proof is fresh and its balance covers the price
OtherwiseValid(req, t) ==
    /\ req.commitment \in Commitments
    /\ req.walletAddress \in Wallets
    /\ req.xPayment.type = "object"
    /\ Get(req.xPayment, "scheme") = "privacycash"
    /\ Get(req.xPayment, "network") = "solana-" \o network
    /\ "payload" \in DOMAIN req.xPayment
    /\ req.xPayment.payload.noteHash = hashNote(req.commitment)
    /\ LET proof == req.xPayment.payload.balanceProof
       IN /\ proof.type = "object"
          /\ {"balance", "timestamp"} \subseteq DOMAIN proof
          /\ proof.balance >= ApiPrice
          /\ t - proof.timestamp <= BALANCE_PROOF_VALIDITY_MS

NoHistory == [valid |-> 0, validOk |-> 0, validDoubleSpend |-> 0, ok |-> 0,
              insufficient |-> FALSE]

Record(h, req, outcome, t) ==
    LET v == IF OtherwiseValid(req, t) THEN 1 ELSE 0
    IN [valid |-> h.valid + v,
        validOk |-> h.validOk + (IF outcome.result = "Ok" THEN v ELSE 0),
        validDoubleSpend |->
            h.validDoubleSpend + (IF outcome.result = "DoubleSpend" THEN v ELSE 0),
        ok |-> h.ok + (IF outcome.result = "Ok" THEN 1 ELSE 0),
        insufficient |-> h.insufficient \/ outcome.result = "InsufficientBalance"]

----------------------------------------------------------------------------
(* The payload codec: JSON.stringify, UTF-8 and base64 on the client,       *)
(* base64, UTF-8 and JSON.parse on the server.  Texts are sequences of      *)
(* UTF-16 code units of the Basic Multilingual Plane, numbers are integers. *)

\* the characters of the strings the program writes into a payload, in the order
\* of their codes: '-' is 45, the digits start at 48, the capitals at 65 and the
\* small letters at 97
CharTable ==
    <<[first |-> 45, chars |-> "-"], [first |-> 48, chars |-> "0123456789"],
      [first |-> 65, chars |-> "ABCDEFGHIJKLMNOPQRSTUVWXYZ"],
      [first |-> 97, chars |-> "abcdefghijklmnopqrstuvwxyz"]>>

\* the code of a one-character string
CharCode(ch) ==
    LET row == CHOOSE r \in 1..Len(CharTable) :
                   \E i \in 1..Len(CharTable[r].chars) :
                       SubSeq(CharTable[r].chars, i, i) = ch
        col == CHOOSE i \in 1..Len(CharTable[row].chars) :
                   SubSeq(CharTable[row].chars, i, i) = ch
    IN CharTable[row].first + col - 1

\* a string literal of the source as the sequence of its UTF-16 code units
RECURSIVE CodeUnits(_)
CodeUnits(str) ==
    IF Len(str) = 0 THEN <<>>
    ELSE <<CharCode(SubSeq(str, 1, 1))>> \o CodeUnits(SubSeq(str, 2, Len(str)))

\* JSON values: numbers, strings (sequences of code units) and objects (their
\* members in insertion order, each a key and a value)
JNum(n) == [t |-> "num", n |-> n]
JStr(s) == [t |-> "str", s |-> s]
JObj(members) == [t |-> "obj", m |-> members]

RECURSIVE Digits(_)
\* the decimal digits of a natural number
Digits(n) == IF n < 10 THEN <<48 + n>> ELSE Digits(n \div 10) \o <<48 + (n % 10)>>

\* JSON.stringify of an integer
NumberToText(n) == IF n < 0 THEN <<45>> \o Digits(-n) ELSE Digits(n)

HexDigit(d) == IF d < 10 THEN 48 + d ELSE 87 + d

\* an escape that leaves the backslash as it is
EscapeUnitQuoteOnly(c) == IF c = 34 THEN <<92, 34>> ELSE <<c>>

\* QuoteJSONString: the escape of one code unit inside a JSON string
EscapeUnit(c) ==
    CASE c = 34 -> <<92, 34>>
      [] c = 92 -> <<92, 92>>
      [] c = 10 -> <<92, 110>>
      [] c < 32 /\ c # 10 -> <<92, 117, 48, 48, HexDigit(c \div 16), HexDigit(c % 16)>>
      [] OTHER -> <<c>>

RECURSIVE Escape(_)
\* the escapes of the code units of a string, one half after the other
Escape(s) ==
    IF s = <<>> THEN <<>>
    ELSE IF Len(s) = 1 THEN EscapeUnit(s[1])
    ELSE Escape(SubSeq(s, 1, Len(s) \div 2)) \o Escape(SubSeq(s, Len(s) \div 2 + 1, Len(s)))

RECURSIVE JSONstringify(_)
RECURSIVE StringifyMembers(_)
\* JSON.stringify(value), no indentation
JSONstringify(v) ==
    CASE v.t = "num" -> NumberToText(v.n)
      [] v.t = "str" -> <<34>> \o Escape(v.s) \o <<34>>
      [] v.t = "obj" -> <<123>> \o StringifyMembers(v.m) \o <<125>>

StringifyMembers(m) ==
    IF m = <<>> THEN <<>>
    ELSE <<34>> \o Escape(Head(m)[1]) \o <<34, 58>> \o JSONstringify(Head(m)[2])
         \o (IF Len(m) = 1 THEN <<>> ELSE <<44>> \o StringifyMembers(Tail(m)))

\* the UTF-8 bytes of one code unit of the Basic Multilingual Plane
UTF8Bytes(c) ==
    IF c < 128 THEN <<c>>
    ELSE IF c < 2048 THEN <<192 + (c \div 64), 128 + (c % 64)>>
    ELSE <<224 + (c \div 4096), 128 + ((c \div 64) % 64), 128 + (c % 64)>>

RECURSIVE UTF8Encode(_)
\* Buffer.from(text): the text's UTF-8 bytes
UTF8Encode(text) ==
    IF text = <<>> THEN <<>>
    ELSE IF Len(text) = 1 THEN UTF8Bytes(text[1])
    ELSE UTF8Encode(SubSeq(text, 1, Len(text) \div 2))
         \o UTF8Encode(SubSeq(text, Len(text) \div 2 + 1, Len(text)))

\* the base64 padding character, after the 64 digits 0..63
Pad == 64

RECURSIVE Base64Encode(_)
\* buffer.toString('base64'): three bytes to four digits, the rest padded
Base64Encode(bytes) ==
    IF bytes = <<>> THEN <<>>
    ELSE IF Len(bytes) = 1
    THEN <<bytes[1] \div 4, (bytes[1] % 4) * 16, Pad, Pad>>
    ELSE IF Len(bytes) = 2
    THEN <<bytes[1] \div 4, (bytes[1] % 4) * 16 + bytes[2] \div 16,
           (bytes[2] % 16) * 4, Pad>>
    ELSE IF Len(bytes) = 3
    THEN <<bytes[1] \div 4, (bytes[1] % 4) * 16 + bytes[2] \div 16,
           (bytes[2] % 16) * 4 + bytes[3] \div 64, bytes[3] % 64>>
    ELSE LET half == 3 * ((((Len(bytes) - 1) \div 3) + 1) \div 2)
         IN Base64Encode(SubSeq(bytes, 1, half))
            \o Base64Encode(SubSeq(bytes, half + 1, Len(bytes)))

\* the character of a base64 digit: A-Z, a-z, 0-9, + and /, and = for padding
Base64Char(d) ==
    IF d < 26 THEN 65 + d
    ELSE IF d < 52 THEN 97 + (d - 26)
    ELSE IF d < 62 THEN 48 + (d - 52)
    ELSE IF d = 62 THEN 43
    ELSE IF d = 63 THEN 47 ELSE 61

RECURSIVE Base64Text(_)
Base64Text(digits) ==
    IF digits = <<>> THEN <<>>
    ELSE IF Len(digits) = 1 THEN <<Base64Char(digits[1])>>
    ELSE Base64Text(SubSeq(digits, 1, Len(digits) \div 2))
         \o Base64Text(SubSeq(digits, Len(digits) \div 2 + 1, Len(digits)))

\* Buffer.from(JSON.stringify(value)).toString('base64'), as code units
Encode(value) == Base64Text(Base64Encode(UTF8Encode(JSONstringify(value))))

\* the digit of a base64 character (the URL-safe - and _ are read too), Pad for
\* the padding character, -1 for any other character
Base64Digit(c) ==
    IF c \in 65..90 THEN c - 65
    ELSE IF c \in 97..122 THEN c - 97 + 26
    ELSE IF c \in 48..57 THEN c - 48 + 52
    ELSE IF c \in {43, 45} THEN 62
    ELSE IF c \in {47, 95} THEN 63
    ELSE IF c = 61 THEN Pad ELSE -1

RECURSIVE FirstPad(_, _, _)
\* the index of the first padding character of header[lo..hi], or 0
FirstPad(header, lo, hi) ==
    IF lo > hi THEN 0
    ELSE IF lo = hi THEN (IF Base64Digit(header[lo]) = Pad THEN lo ELSE 0)
    ELSE LET left == FirstPad(header, lo, (lo + hi) \div 2)
         IN IF left # 0 THEN left ELSE FirstPad(header, (lo + hi) \div 2 + 1, hi)

RECURSIVE Base64Digits(_)
\* the digits of the characters; characters that are no digits are skipped
Base64Digits(chars) ==
    IF chars = <<>> THEN <<>>
    ELSE IF Len(chars) = 1
    THEN (IF Base64Digit(chars[1]) < 0 THEN <<>> ELSE <<Base64Digit(chars[1])>>)
    ELSE Base64Digits(SubSeq(chars, 1, Len(chars) \div 2))
         \o Base64Digits(SubSeq(chars, Len(chars) \div 2 + 1, Len(chars)))

RECURSIVE Base64Bytes(_)
\* four digits to three bytes; two or three digits left over are one or two bytes
Base64Bytes(d) ==
    IF Len(d) < 2 THEN <<>>
    ELSE IF Len(d) = 2 THEN <<d[1] * 4 + d[2] \div 16>>
    ELSE IF Len(d) = 3
    THEN <<d[1] * 4 + d[2] \div 16, (d[2] % 16) * 16 + d[3] \div 4>>
    ELSE IF Len(d) = 4
    THEN <<d[1] * 4 + d[2] \div 16, (d[2] % 16) * 16 + d[3] \div 4,
           (d[3] % 4) * 64 + d[4]>>
    ELSE LET half == 4 * ((((Len(d) - 1) \div 4) + 1) \div 2)
         IN Base64Bytes(SubSeq(d, 1, half)) \o Base64Bytes(SubSeq(d, half + 1, Len(d)))

\* Buffer.from(header, 'base64'): decoding stops at the first padding character
Base64Decode(header) ==
    LET pad == FirstPad(header, 1, Len(header))
    IN Base64Bytes(Base64Digits(IF pad = 0 THEN header ELSE SubSeq(header, 1, pad - 1)))

IsContinuation(bytes, i) == Len(bytes) >= i /\ bytes[i] \in 128..191

\* the code unit at the head of the bytes and the number of bytes it takes; bytes
\* that are no complete sequence read U+FFFD
UTF8Head(bytes) ==
    LET b == bytes[1]
    IN IF b < 128 THEN [unit |-> b, n |-> 1]
       ELSE IF b \in 194..223 /\ IsContinuation(bytes, 2)
       THEN [unit |-> (b - 192) * 64 + (bytes[2] - 128), n |-> 2]
       ELSE IF b \in 224..239 /\ IsContinuation(bytes, 2) /\ IsContinuation(bytes, 3)
       THEN [unit |-> (b - 224) * 4096 + (bytes[2] - 128) * 64 + (bytes[3] - 128),
             n |-> 3]
       ELSE IF b \in 224..239 /\ IsContinuation(bytes, 2)
       THEN [unit |-> 65533, n |-> 2]
       ELSE [unit |-> 65533, n |-> 1]

\* an index from the middle on where a sequence starts, or 0
SplitPoint(bytes) ==
    LET m == Len(bytes) \div 2 + 1
    IN IF ~IsContinuation(bytes, m) THEN m
       ELSE IF m + 1 <= Len(bytes) /\ ~IsContinuation(bytes, m + 1) THEN m + 1
       ELSE IF m + 2 <= Len(bytes) /\ ~IsContinuation(bytes, m + 2) THEN m + 2
       ELSE 0

RECURSIVE UTF8Decode(_)
\* buffer.toString('utf8'); no sequence spans the start of another, so the bytes
\* before and from such a start are decoded apart
UTF8Decode(bytes) ==
    IF bytes = <<>> THEN <<>>
    ELSE IF Len(bytes) > 3 /\ SplitPoint(bytes) # 0
    THEN UTF8Decode(SubSeq(bytes, 1, SplitPoint(bytes) - 1))
         \o UTF8Decode(SubSeq(bytes, SplitPoint(bytes), Len(bytes)))
    ELSE <<UTF8Head(bytes).unit>>
         \o UTF8Decode(SubSeq(bytes, UTF8Head(bytes).n + 1, Len(bytes)))

\* what a parser returns: the value read and the text after it, or a failure
Parsed(value, rest) == [ok |-> TRUE, v |-> value, rest |-> rest]
SyntaxError == [ok |-> FALSE]

IsDigit(c) == c \in 48..57

HexValue(c) ==
    IF c \in 48..57 THEN c - 48
    ELSE IF c \in 97..102 THEN c - 87
    ELSE IF c \in 65..70 THEN c - 55 ELSE -1

\* the code unit a two-character escape stands for, or -1
SimpleEscape(c) ==
    CASE c = 34 -> 34 [] c = 92 -> 92 [] c = 47 -> 47 [] c = 98 -> 8
      [] c = 102 -> 12 [] c = 110 -> 10 [] c = 114 -> 13 [] c = 116 -> 9
      [] OTHER -> -1

RECURSIVE FirstSpecial(_, _, _)
\* the index of the first quote, backslash or control character of text[lo..hi],
\* or 0
FirstSpecial(text, lo, hi) ==
    IF lo > hi THEN 0
    ELSE IF lo = hi
    THEN (IF text[lo] = 34 \/ text[lo] = 92 \/ text[lo] < 32 THEN lo ELSE 0)
    ELSE LET left == FirstSpecial(text, lo, (lo + hi) \div 2)
         IN IF left # 0 THEN left ELSE FirstSpecial(text, (lo + hi) \div 2 + 1, hi)

RECURSIVE ParseString(_, _)
\* the rest of a JSON string whose opening quote was read; read is what it holds
\* so far
ParseString(text, read) ==
    LET i == FirstSpecial(text, 1, Len(text))
        plain == read \o SubSeq(text, 1, i - 1)
    IN IF i = 0 \/ text[i] < 32 THEN SyntaxError
       ELSE IF text[i] = 34 THEN Parsed(plain, SubSeq(text, i + 1, Len(text)))
       ELSE IF Len(text) < i + 1 THEN SyntaxError
       ELSE IF text[i + 1] = 117
       THEN IF Len(text) >= i + 5 /\ \A j \in (i + 2)..(i + 5) : HexValue(text[j]) >= 0
            THEN ParseString(SubSeq(text, i + 6, Len(text)),
                             Append(plain, HexValue(text[i + 2]) * 4096
                                           + HexValue(text[i + 3]) * 256
                                           + HexValue(text[i + 4]) * 16
                                           + HexValue(text[i + 5])))
            ELSE SyntaxError
       ELSE IF SimpleEscape(text[i + 1]) >= 0
       THEN ParseString(SubSeq(text, i + 2, Len(text)),
                        Append(plain, SimpleEscape(text[i + 1])))
       ELSE SyntaxError

RECURSIVE ParseDigits(_, _)
\* the digits of an integer; n is the value of those read so far
ParseDigits(text, n) ==
    IF text # <<>> /\ IsDigit(Head(text))
    THEN ParseDigits(Tail(text), 10 * n + (Head(text) - 48))
    ELSE Parsed(n, text)

\* a JSON number without fraction and exponent
ParseNumber(text) ==
    IF text # <<>> /\ Head(text) = 45
    THEN IF Len(text) >= 2 /\ IsDigit(text[2])
         THEN LET r == ParseDigits(Tail(text), 0) IN Parsed(-r.v, r.rest)
         ELSE SyntaxError
    ELSE IF text # <<>> /\ IsDigit(Head(text))
    THEN IF Head(text) = 48 /\ Len(text) >= 2 /\ IsDigit(text[2])
         THEN SyntaxError
         ELSE ParseDigits(text, 0)
    ELSE SyntaxError

RECURSIVE ParseValue(_)
RECURSIVE ParseMembers(_, _)
\* one JSON value at the head of the text
ParseValue(text) ==
    IF text = <<>> THEN SyntaxError
    ELSE IF Head(text) = 34
    THEN LET r == ParseString(Tail(text), <<>>)
         IN IF r.ok THEN Parsed(JStr(r.v), r.rest) ELSE SyntaxError
    ELSE IF Head(text) = 123
    THEN IF Len(text) >= 2 /\ text[2] = 125
         THEN Parsed(JObj(<<>>), SubSeq(text, 3, Len(text)))
         ELSE ParseMembers(Tail(text), <<>>)
    ELSE LET r == ParseNumber(text)
         IN IF r.ok THEN Parsed(JNum(r.v), r.rest) ELSE SyntaxError

\* the members of an object after its brace or a comma; read is those read so far
ParseMembers(text, read) ==
    IF text = <<>> \/ Head(text) # 34 THEN SyntaxError
    ELSE LET key == ParseString(Tail(text), <<>>)
         IN IF ~key.ok \/ key.rest = <<>> \/ Head(key.rest) # 58 THEN SyntaxError
            ELSE LET value == ParseValue(Tail(key.rest))
                 IN IF ~value.ok \/ value.rest = <<>> THEN SyntaxError
                    ELSE LET members == Append(read, <<key.v, value.v>>)
                         IN IF Head(value.rest) = 125
                            THEN Parsed(JObj(members), Tail(value.rest))
                            ELSE IF Head(value.rest) = 44
                            THEN ParseMembers(Tail(value.rest), members)
                            ELSE SyntaxError

\* JSON.parse(text): the value, or that it throws a SyntaxError
JSONparse(text) ==
    LET r == ParseValue(text)
    IN IF r.ok /\ r.rest = <<>> THEN r.v ELSE [t |-> "throws"]

\* JSON.parse(Buffer.from(header, 'base64').toString('utf8'))
Decode(header) == JSONparse(UTF8Decode(Base64Decode(header)))

\* the PaymentPayload of generatePayment, its members in the order written
CodecPayload(version, net, noteHash, commitment, timestamp, balanceProof) ==
    JObj(<< <<CodeUnits("x402Version"), JNum(version)>>,
            <<CodeUnits("scheme"), JStr(CodeUnits("privacycash"))>>,
            <<CodeUnits("network"), JStr(CodeUnits(net))>>,
            <<CodeUnits("payload"),
              JObj(<< <<CodeUnits("noteHash"), JStr(noteHash)>>,
                      <<CodeUnits("commitment"), JStr(commitment)>>,
                      <<CodeUnits("timestamp"), JNum(timestamp)>>,
                      <<CodeUnits("balanceProof"), JStr(balanceProof)>> >>)>> >>)

\* the BalanceProof of generateBalanceProof
CodecProof(balance, timestamp, wallet) ==
    JObj(<< <<CodeUnits("balance"), JNum(balance)>>,
            <<CodeUnits("timestamp"), JNum(timestamp)>>,
            <<CodeUnits("wallet"), JStr(wallet)>> >>)

\* the code units the texts of the model are made of: a letter, the quote, the
\* backslash, a line feed, e with acute accent (two UTF-8 bytes) and the euro
\* sign (three)
TextUnits == {97, 34, 92, 10, 233, 8364}

RECURSIVE TextsOfLength(_)
TextsOfLength(n) ==
    IF n = 0 THEN {<<>>}
    ELSE {Append(s, c) : s \in TextsOfLength(n - 1), c \in TextUnits}

Texts == UNION {TextsOfLength(n) : n \in 0..MaxTextLen}

\* the balanceProof blobs: what generateBalanceProof returns
CodecProofs ==
    {Encode(CodecProof(ApiPrice, StartTime, wallet)) :
        wallet \in {CodeUnits("w1"), <<233, 34>>}}

CodecPayloads ==
    {CodecPayload(1, net, CodeUnits("h1"), commitment, timestamp, balanceProof) :
        net \in Networks, commitment \in Texts, timestamp \in {-1, 0, StartTime},
        balanceProof \in CodecProofs}

----------------------------------------------------------------------------
(* The server *)

\* initializeMerchant: Keypair.fromSecretKey throws on bytes that are no key
Keypairs == {"none", "valid", "malformed"}

initializeMerchant(keypair) == IF keypair = "valid" THEN "PrivacyCash" ELSE "null"

NoOp == [op |-> "constructor"]

\* the state the constructor leaves, for a config.rpcUrl among rpcUrls
\* no X402PaymentClient has been built
NoClient == [built |-> FALSE]

\* paymentSessions = {}: no own keys, nothing being created
NoSessions == [store |-> <<>>, creating |-> {}, calls |-> 0]

Constructed(rpcUrls) ==
    /\ \E rpcUrl \in rpcUrls : network = NetworkOf(rpcUrl)
    /\ \E keypair \in Keypairs : merchantClient = initializeMerchant(keypair)
    /\ usedCommitments = {}
    /\ pendingPayments = <<>>
    /\ withdrawalInterval = "active"
    /\ inflight = {}
    /\ now = StartTime
    /\ last = NoOp
    /\ hist = [c \in Commitments |-> NoHistory]
    /\ nRequests = 0
    /\ nTicks = 0
    /\ servers = <<>>
    /\ handlers = <<>>
    /\ client = NoClient
    /\ sessions = NoSessions

Init == Constructed({"https://api.devnet.solana.com"})

\* the commitment is marked before the balance proof is verified
MarksUsedBeforeBalance(outcome) == outcome.result \in {"Ok", "InsufficientBalance"}

\* verifyPayment reaches usedCommitments.add and pendingPayments.set only when no
\* check has thrown
MarksUsed(outcome) == outcome.result = "Ok"

\* a header test that takes the empty string for a payment
IsUndefined(header) == header.type = "absent"

\* !xPaymentHeader: the header is undefined or the empty string
Falsy(header) == header.type \in {"absent", "empty"}

\* middleware(): one request, from its arrival to next() or the response
middleware(req) ==
    /\ nRequests < MaxRequests
    /\ nRequests' = nRequests + 1
    /\ IF Falsy(req.xPayment)
       THEN /\ last' = [op |-> "request", req |-> req, at |-> now,
                        outcome |-> [result |-> "Quote"],
                        response |-> [next |-> FALSE, status |-> 402,
                                      body |-> generateQuote]]
            /\ UNCHANGED <<usedCommitments, pendingPayments, hist>>
       ELSE LET outcome == verifyPayment(req, usedCommitments, now)
            IN /\ last' = [op |-> "request", req |-> req, at |-> now,
                           outcome |-> outcome, response |-> Respond(outcome)]
               /\ IF MarksUsed(outcome)
                  THEN /\ usedCommitments' = AddCommitment(usedCommitments, req.commitment)
                       /\ pendingPayments' = SetPending(pendingPayments, req.commitment,
                                                        req.walletAddress, now)
                  ELSE UNCHANGED <<usedCommitments, pendingPayments>>
               /\ hist' = IF req.commitment \in Commitments
                          THEN [hist EXCEPT ![req.commitment] =
                                    Record(@, req, outcome, now)]
                          ELSE hist
    /\ UNCHANGED <<client, sessions, servers, handlers, network, merchantClient, withdrawalInterval, inflight, now, nTicks>>

\* Array.from(this.pendingPayments.values()).filter((p) => p.verified)
PaymentsToProcess(pending) == {pending[k] : k \in {j \in DOMAIN pending : pending[j].verified}}

RECURSIVE Sum(_)
Sum(payments) ==
    IF payments = {} THEN 0
    ELSE LET p == CHOOSE q \in payments : TRUE
         IN p.amount + Sum(payments \ {p})

\* a reduce that drops the accumulator: (sum, p) => p.amount
TotalOfOne(payments) ==
    IF payments = {} THEN 0 ELSE (CHOOSE q \in payments : TRUE).amount

\* paymentsToProcess.reduce((sum, p) => sum + p.amount, 0)
Total(payments) == Sum(payments)

\* a delete loop that deletes nothing
DeletePaymentsNothing(pending, payments) == pending

\* for (const payment of paymentsToProcess) this.pendingPayments.delete(payment.commitment)
DeletePayments(pending, payments) ==
    [k \in DOMAIN pending \ {p.commitment : p \in payments} |-> pending[k]]

\* the call processMerchantWithdrawals makes: merchantClient.withdraw({lamports, recipientAddress})
WithdrawCall(id, payments) ==
    [id |-> id, batch |-> payments, lamports |-> Total(payments),
     recipientAddress |-> MerchantWallet]

\* processMerchantWithdrawals without its early return on an empty batch
TickNoEmptyReturn ==
    /\ withdrawalInterval = "active"
    /\ nTicks < MaxTicks
    /\ nTicks' = nTicks + 1
    /\ now' = now + WithdrawalIntervalMs
    /\ LET paymentsToProcess == PaymentsToProcess(pendingPayments)
           call == WithdrawCall(nTicks + 1, paymentsToProcess)
       IN IF merchantClient = "null"
          THEN /\ last' = [op |-> "tick", path |-> "simulated",
                           batch |-> paymentsToProcess, calls |-> {}]
               /\ pendingPayments' = DeletePayments(pendingPayments, paymentsToProcess)
               /\ UNCHANGED inflight
          ELSE /\ last' = [op |-> "tick", path |-> "withdraw",
                           batch |-> paymentsToProcess, calls |-> {call}]
               /\ inflight' = inflight \cup {call}
               /\ UNCHANGED pendingPayments
    /\ UNCHANGED <<client, sessions, servers, handlers, network, merchantClient, usedCommitments, withdrawalInterval,
                   hist, nRequests>>

\* a scheduler that skips the tick while a withdraw call is outstanding
TickAwaitsOutstanding ==
    /\ withdrawalInterval = "active"
    /\ inflight = {}
    /\ nTicks < MaxTicks
    /\ nTicks' = nTicks + 1
    /\ now' = now + WithdrawalIntervalMs
    /\ LET paymentsToProcess == PaymentsToProcess(pendingPayments)
           call == WithdrawCall(nTicks + 1, paymentsToProcess)
       IN IF paymentsToProcess = {}
          THEN /\ last' = [op |-> "tick", path |-> "empty", batch |-> {}, calls |-> {}]
               /\ UNCHANGED <<pendingPayments, inflight>>
          ELSE IF merchantClient = "null"
          THEN /\ last' = [op |-> "tick", path |-> "simulated",
                           batch |-> paymentsToProcess, calls |-> {}]
               /\ pendingPayments' = DeletePayments(pendingPayments, paymentsToProcess)
               /\ UNCHANGED inflight
          ELSE /\ last' = [op |-> "tick", path |-> "withdraw",
                           batch |-> paymentsToProcess, calls |-> {call}]
               /\ inflight' = inflight \cup {call}
               /\ UNCHANGED pendingPayments
    /\ UNCHANGED <<client, sessions, servers, handlers, network, merchantClient, usedCommitments, withdrawalInterval,
                   hist, nRequests>>

\* the timer fires, one interval after it fired last: processMerchantWithdrawals up
\* to its await, or to its return
Tick ==
    /\ withdrawalInterval = "active"
    /\ nTicks < MaxTicks
    /\ nTicks' = nTicks + 1
    /\ now' = now + WithdrawalIntervalMs
    /\ LET paymentsToProcess == PaymentsToProcess(pendingPayments)
           call == WithdrawCall(nTicks + 1, paymentsToProcess)
       IN IF paymentsToProcess = {}
          THEN /\ last' = [op |-> "tick", path |-> "empty", batch |-> {}, calls |-> {}]
               /\ UNCHANGED <<pendingPayments, inflight>>
          ELSE IF merchantClient = "null"
          THEN /\ last' = [op |-> "tick", path |-> "simulated",
                           batch |-> paymentsToProcess, calls |-> {}]
               /\ pendingPayments' = DeletePayments(pendingPayments, paymentsToProcess)
               /\ UNCHANGED inflight
          ELSE /\ last' = [op |-> "tick", path |-> "withdraw",
                           batch |-> paymentsToProcess, calls |-> {call}]
               /\ inflight' = inflight \cup {call}
               /\ UNCHANGED pendingPayments
    /\ UNCHANGED <<client, sessions, servers, handlers, network, merchantClient, usedCommitments, withdrawalInterval,
                   hist, nRequests>>

\* a continuation that skips the delete loop after a successful withdrawal
WithdrawResolvesKeepsBatch(call) ==
    /\ call \in inflight
    /\ inflight' = inflight \ {call}
    /\ last' = [op |-> "withdrawn", call |-> call]
    /\ UNCHANGED <<client, sessions, servers, handlers, network, merchantClient, usedCommitments, pendingPayments,
                   withdrawalInterval, now, hist, nRequests, nTicks>>

\* a continuation that clears the map instead of deleting the batch it read
WithdrawResolvesClearsMap(call) ==
    /\ call \in inflight
    /\ inflight' = inflight \ {call}
    /\ pendingPayments' = <<>>
    /\ last' = [op |-> "withdrawn", call |-> call]
    /\ UNCHANGED <<client, sessions, servers, handlers, network, merchantClient, usedCommitments, withdrawalInterval, now,
                   hist, nRequests, nTicks>>

\* the withdraw promise resolves: the batch is cleared
WithdrawResolves(call) ==
    /\ call \in inflight
    /\ inflight' = inflight \ {call}
    /\ pendingPayments' = DeletePayments(pendingPayments, call.batch)
    /\ last' = [op |-> "withdrawn", call |-> call]
    /\ UNCHANGED <<client, sessions, servers, handlers, network, merchantClient, usedCommitments, withdrawalInterval, now,
                   hist, nRequests, nTicks>>

\* the withdraw promise rejects (or withdraw throws): the catch block logs it
WithdrawRejects(call) ==
    /\ call \in inflight
    /\ inflight' = inflight \ {call}
    /\ last' = [op |-> "withdrawFailed", call |-> call]
    /\ UNCHANGED <<client, sessions, servers, handlers, network, merchantClient, usedCommitments, pendingPayments,
                   withdrawalInterval, now, hist, nRequests, nTicks>>

\* a stop that also drops the withdraw calls in flight
stopAbortsInFlight ==
    /\ withdrawalInterval' = "cleared"
    /\ inflight' = {}
    /\ UNCHANGED <<client, sessions, servers, handlers, network, merchantClient, usedCommitments, pendingPayments,
                   now, last, hist, nRequests, nTicks>>

\* stop(): clearInterval(this.withdrawalInterval)
stop ==
    /\ withdrawalInterval' = "cleared"
    /\ UNCHANGED <<client, sessions, servers, handlers, network, merchantClient, usedCommitments, pendingPayments, inflight,
                   now, last, hist, nRequests, nTicks>>

HandleRequest == \E req \in LedgerRequests(now) : middleware(req)

Resolve == \E call \in inflight : WithdrawResolves(call)

Reject == \E call \in inflight : WithdrawRejects(call)

Next == HandleRequest \/ Tick \/ Resolve \/ Reject \/ stop

Spec == Init /\ [][Next]_vars

\* the verifier on every request of the model, settlement simulated or real
InitVerify == Constructed({"https://api.devnet.solana.com"})

VerifyRequest ==
    /\ nRequests < MaxVerifyRequests
    /\ \E req \in AllRequests(now) : middleware(req)

NextVerify == VerifyRequest \/ Tick

SpecVerify == InitVerify /\ [][NextVerify]_vars

\* settlement while the timer runs: stop() is never called, clients send the
\* payments generatePayment builds, the withdraw calls of the first MaxFailures
\* ticks may fail and the later ones succeed
PaymentRequests(t) == {Deviant(c, w, t, "none") : c \in Commitments, w \in Wallets}

Pay == \E req \in PaymentRequests(now) : middleware(req)

TransientReject ==
    \E call \in inflight : call.id <= MaxFailures /\ WithdrawRejects(call)

\* the withdraw promise of tick number id settles
Settles(id) ==
    \E call \in inflight :
        /\ call.id = id
        /\ (WithdrawResolves(call) \/ (call.id <= MaxFailures /\ WithdrawRejects(call)))

NextLive == Pay \/ Tick \/ Resolve \/ TransientReject

\* setInterval keeps firing the timer, and every withdraw promise settles
Fairness == WF_vars(Tick) /\ \A id \in 1..MaxTicks : WF_vars(Settles(id))

SpecLive == Init /\ [][NextLive]_vars /\ Fairness

\* a provider that never answers: no withdraw promise ever settles, the timer
\* keeps firing and clients keep paying
NextStalled == Pay \/ Tick

SpecStalled == Init /\ [][NextStalled]_vars /\ WF_vars(Tick)

\* verifyBalance on every blob of ProofBlobs, as the clock advances
ProofBlobs(t) ==
    {[type |-> "undefined"], [type |-> "notJSON"], [type |-> "null"], [type |-> "number"]}
    \cup {[type |-> "object", wallet |-> "w1"]}
    \cup {[type |-> "object", balance |-> b, wallet |-> "w1"] :
            b \in {ApiPrice - 1, ApiPrice, ApiPrice + 1}}
    \cup {[type |-> "object", timestamp |-> ts, wallet |-> "w1"] :
            ts \in {t - BALANCE_PROOF_VALIDITY_MS - 1, t - BALANCE_PROOF_VALIDITY_MS,
                    t - BALANCE_PROOF_VALIDITY_MS + 1, t, t + 1}}
    \cup {[type |-> "object", balance |-> b, timestamp |-> ts, wallet |-> "w1"] :
            b \in {ApiPrice - 1, ApiPrice, ApiPrice + 1},
            ts \in {t - BALANCE_PROOF_VALIDITY_MS - 1, t - BALANCE_PROOF_VALIDITY_MS,
                    t - BALANCE_PROOF_VALIDITY_MS + 1, t, t + 1}}

CheckBalance ==
    /\ \E balanceProof \in ProofBlobs(now) :
          last' = [op |-> "verifyBalance", balanceProof |-> balanceProof,
                   required |-> ApiPrice, at |-> now,
                   try |-> tryVerifyBalance(balanceProof, ApiPrice, now),
                   result |-> verifyBalance(balanceProof, ApiPrice, now)]
    /\ UNCHANGED <<client, sessions, servers, handlers, network, merchantClient, usedCommitments, pendingPayments,
                   withdrawalInterval, inflight, now, hist, nRequests, nTicks>>

NextBalance == CheckBalance \/ Tick

SpecBalance == Init /\ [][NextBalance]_vars

\* the codec: the client encodes a payload, the server decodes the header
EncodePayload ==
    /\ last = NoOp
    /\ \E payload \in CodecPayloads :
          last' = [op |-> "encode", payload |-> payload, header |-> Encode(payload)]
    /\ UNCHANGED <<client, sessions, servers, handlers, network, merchantClient, usedCommitments, pendingPayments,
                   withdrawalInterval, inflight, now, hist, nRequests, nTicks>>

DecodeHeader ==
    /\ last.op = "encode"
    /\ last' = [op |-> "decode", payload |-> last.payload, header |-> last.header,
                decoded |-> Decode(last.header)]
    /\ UNCHANGED <<client, sessions, servers, handlers, network, merchantClient, usedCommitments, pendingPayments,
                   withdrawalInterval, inflight, now, hist, nRequests, nTicks>>

NextCodec == EncodePayload \/ DecodeHeader

SpecCodec == Init /\ [][NextCodec]_vars

\* the divisor of getStats
LAMPORTS_PER_SOL == 1000000000

RECURSIVE GCD(_, _)
GCD(a, b) == IF b = 0 THEN a ELSE GCD(b, a % b)

\* a number that need not be whole, as a fraction in lowest terms
Number(n) == [num |-> n, den |-> 1]

\* a / b of two whole numbers, b > 0
Divide(a, b) ==
    LET g == GCD(a, b)
    IN [num |-> a \div g, den |-> b \div g]

\* getStats(): the two sizes, and the sum of the pending amounts over 1e9
getStats ==
    [usedCommitments |-> Cardinality(usedCommitments),
     pendingPayments |-> Cardinality(DOMAIN pendingPayments),
     totalPendingAmount |->
         Divide(Sum({pendingPayments[k] : k \in DOMAIN pendingPayments}),
                LAMPORTS_PER_SOL)]

\* somebody asks the server for its statistics
GetStats ==
    /\ last' = [op |-> "stats", stats |-> getStats]
    /\ UNCHANGED <<client, sessions, servers, handlers, network, merchantClient, usedCommitments, pendingPayments,
                   withdrawalInterval, inflight, now, hist, nRequests, nTicks>>

NextStats == Pay \/ Tick \/ Resolve \/ Reject \/ GetStats

SpecStats == Init /\ [][NextStats]_vars

\* requests that differ in the members verifyPayment does not read: the
\* payload's embedded commitment and timestamp, the protocol version and the
\* wallet named in the balance proof
VariantRequests(t) ==
    {[Deviant(c, w, t, dev) EXCEPT
         !.xPayment.x402Version = version,
         !.xPayment.payload.commitment = embedded,
         !.xPayment.payload.timestamp = timestamp,
         !.xPayment.payload.balanceProof.wallet = proofWallet] :
        c \in Commitments, w \in {"w2"},
        dev \in {"none", "noteHash", "expired", "balance"},
        version \in {1, 2}, embedded \in Commitments, timestamp \in {0, t},
        proofWallet \in Wallets}

HandleVariant == \E req \in VariantRequests(now) : middleware(req)

NextVariants == HandleVariant

SpecVariants == Init /\ [][NextVariants]_vars

----------------------------------------------------------------------------
(* Several servers.  Every `new X402PaymentServer(config)` has its own     *)
(* fields; a handler returned by middleware() is a closure over the `this` *)
(* it was called on.  The instances here are built from the configuration  *)
(* of the examples: the same rpcUrl, no merchantKeypair; as there, servers  *)
(* and routes are set up before the first request is served.               *)

\* the fields of a new instance; grantedBy is history: the handler through
\* which each commitment was accepted
NewServer ==
    [usedCommitments |-> {}, pendingPayments |-> <<>>, withdrawalInterval |-> "active",
     merchantClient |-> "null", grantedBy |-> <<>>]

\* createX402Middleware(config): a new server, and a handler of it
createX402Middleware ==
    /\ nRequests = 0 /\ nTicks = 0
    /\ Len(servers) < MaxServers
    /\ Len(handlers) < MaxHandlers
    /\ servers' = Append(servers, NewServer)
    /\ handlers' = Append(handlers, [server |-> Len(servers) + 1])
    /\ last' = [op |-> "createX402Middleware", server |-> Len(servers) + 1,
                handler |-> Len(handlers) + 1]
    /\ UNCHANGED <<client, sessions, network, merchantClient, usedCommitments, pendingPayments,
                   withdrawalInterval, inflight, now, hist, nRequests, nTicks>>

\* server.middleware() once more, for another route: a handler of server i
anotherMiddleware(i) ==
    /\ nRequests = 0 /\ nTicks = 0
    /\ Len(handlers) < MaxHandlers
    /\ handlers' = Append(handlers, [server |-> i])
    /\ last' = [op |-> "middleware", server |-> i, handler |-> Len(handlers) + 1]
    /\ UNCHANGED <<client, sessions, servers, network, merchantClient, usedCommitments, pendingPayments,
                   withdrawalInterval, inflight, now, hist, nRequests, nTicks>>

\* the fields of server s after handler h answered req with outcome
Granted(s, h, req, outcome, t) ==
    IF MarksUsed(outcome)
    THEN [s EXCEPT !.usedCommitments = AddCommitment(@, req.commitment),
                   !.pendingPayments = SetPending(@, req.commitment, req.walletAddress, t),
                   !.grantedBy = [c \in DOMAIN @ \cup {req.commitment} |->
                                     IF c = req.commitment THEN h ELSE @[c]]]
    ELSE s

\* a handler with a ledger of its own: it sees the commitments it granted itself
HandleByOwnLedger(h, req) ==
    LET i == handlers[h].server
        s == servers[i]
        own == {c \in s.usedCommitments : s.grantedBy[c] = h}
        outcome == IF Falsy(req.xPayment) THEN [result |-> "Quote"]
                   ELSE verifyPayment(req, own, now)
    IN /\ nRequests < MaxRouteRequests
       /\ nRequests' = nRequests + 1
       /\ servers' = [servers EXCEPT ![i] = Granted(s, h, req, outcome, now)]
       /\ last' = [op |-> "request", handler |-> h, server |-> i, req |-> req,
                   at |-> now, outcome |-> outcome]
       /\ UNCHANGED <<client, sessions, handlers, network, merchantClient, usedCommitments,
                      pendingPayments, withdrawalInterval, inflight, now, hist, nTicks>>

\* handlers over one set of commitments for the whole process
HandleBySharedSet(h, req) ==
    LET i == handlers[h].server
        s == servers[i]
        shared == UNION {servers[j].usedCommitments : j \in DOMAIN servers}
        outcome == IF Falsy(req.xPayment) THEN [result |-> "Quote"]
                   ELSE verifyPayment(req, shared, now)
    IN /\ nRequests < MaxRouteRequests
       /\ nRequests' = nRequests + 1
       /\ servers' = [servers EXCEPT ![i] = Granted(s, h, req, outcome, now)]
       /\ last' = [op |-> "request", handler |-> h, server |-> i, req |-> req,
                   at |-> now, outcome |-> outcome]
       /\ UNCHANGED <<client, sessions, handlers, network, merchantClient, usedCommitments,
                      pendingPayments, withdrawalInterval, inflight, now, hist, nTicks>>

\* handler h answers a request: middleware() on the fields of its server
HandleBy(h, req) ==
    LET i == handlers[h].server
        s == servers[i]
        outcome == IF Falsy(req.xPayment) THEN [result |-> "Quote"]
                   ELSE verifyPayment(req, s.usedCommitments, now)
    IN /\ nRequests < MaxRouteRequests
       /\ nRequests' = nRequests + 1
       /\ servers' = [servers EXCEPT ![i] = Granted(s, h, req, outcome, now)]
       /\ last' = [op |-> "request", handler |-> h, server |-> i, req |-> req,
                   at |-> now, outcome |-> outcome]
       /\ UNCHANGED <<client, sessions, handlers, network, merchantClient, usedCommitments,
                      pendingPayments, withdrawalInterval, inflight, now, hist, nTicks>>

\* the timer of server i fires: without a merchant client the settlement of
\* its pending payments is simulated
TickOf(i) ==
    LET s == servers[i]
        paymentsToProcess == PaymentsToProcess(s.pendingPayments)
    IN /\ s.withdrawalInterval = "active"
       /\ nTicks < MaxInstanceTicks
       /\ nTicks' = nTicks + 1
       /\ now' = now + WithdrawalIntervalMs
       /\ servers' = [servers EXCEPT ![i].pendingPayments =
                          DeletePayments(@, paymentsToProcess)]
       /\ last' = [op |-> "tick", server |-> i, batch |-> paymentsToProcess]
       /\ UNCHANGED <<client, sessions, handlers, network, merchantClient, usedCommitments,
                      pendingPayments, withdrawalInterval, inflight, hist, nRequests>>

\* stop() of server i
stopOf(i) ==
    /\ servers[i].withdrawalInterval = "active"
    /\ servers' = [servers EXCEPT ![i].withdrawalInterval = "cleared"]
    /\ last' = [op |-> "stop", server |-> i]
    /\ UNCHANGED <<client, sessions, handlers, network, merchantClient, usedCommitments, pendingPayments,
                   withdrawalInterval, inflight, now, hist, nRequests, nTicks>>

InstanceRequests(t) == {Deviant(c, "w1", t, "none") : c \in Commitments}

Create == createX402Middleware

AnotherRoute == \E i \in DOMAIN servers : anotherMiddleware(i)

RouteRequest == \E h \in DOMAIN handlers : \E req \in InstanceRequests(now) : HandleBy(h, req)

InstanceTick == \E i \in DOMAIN servers : TickOf(i)

InstanceStop == \E i \in DOMAIN servers : stopOf(i)

NextInstances == Create \/ AnotherRoute \/ RouteRequest \/ InstanceTick \/ InstanceStop

InitInstances == Init /\ merchantClient = "null"

SpecInstances == InitInstances /\ [][NextInstances]_vars

----------------------------------------------------------------------------
(* The client (src/src/client/index.ts).  Its methods are async: each runs *)
(* to its first await in one step, and inflight holds the calls suspended   *)
(* at an await, with the locals they resume with.  In mock mode the        *)
(* balance is this.mockBalance; otherwise it is the balance the provider's *)
(* SDK keeps for the owner, poolBalance here.  deposited, paid, fetches    *)
(* and calls are history: the lamports credited and debited, the network   *)
(* requests issued, the methods called.                                    *)

ClientWallet == "w1"

\* the amounts deposited and the amounts quoted
Amounts == {ApiPrice - 1, ApiPrice}

\* new X402PaymentClient(config)
NewClient(rpcUrl, mockMode) ==
    [built |-> TRUE, initialized |-> FALSE, mockMode |-> mockMode, mockBalance |-> 0,
     poolBalance |-> 0, network |-> NetworkOf(rpcUrl), client |-> "null",
     generated |-> {}, deposited |-> 0, paid |-> 0, fetches |-> 0, calls |-> 0]

\* a gate that looks at the SDK client only, and so lets a mock client through
NotInitializedSdkOnly(c) == ~c.mockMode /\ c.client = "null"

\* ensureInitialized() throws
NotInitialized(c) == ~c.initialized \/ (~c.mockMode /\ c.client = "null")

NotInitializedError == "Client not initialized. Call initialize() first."

\* the lamports getPrivateBalance() reports
privateBalance(c) == IF c.mockMode THEN c.mockBalance ELSE c.poolBalance

Began(c) == [c EXCEPT !.calls = @ + 1]

\* a call suspended at an await
Suspended(id, method, pc, balance, amount) ==
    [id |-> id, method |-> method, pc |-> pc, balance |-> balance, amount |-> amount,
     headers |-> <<>>]

\* headers whose noteHash is the commitment itself, not its hash
HeadersRawCommitment(c, commitment, balance, t) ==
    Request(PaymentObject("privacycash", "solana-" \o c.network, commitment,
                          commitment, t,
                          [type |-> "object", balance |-> balance, timestamp |-> t,
                           wallet |-> ClientWallet]),
            commitment, ClientWallet)

\* what generatePayment returns: the payload, as the server decodes it, and the
\* two other headers
Headers(c, commitment, balance, t) ==
    Request(PaymentObject("privacycash", "solana-" \o c.network, hashNote(commitment),
                          commitment, t,
                          [type |-> "object", balance |-> balance, timestamp |-> t,
                           wallet |-> ClientWallet]),
            commitment, ClientWallet)

\* the deposit reaches the balance
Credit(c, lamports) ==
    IF c.mockMode
    THEN [c EXCEPT !.mockBalance = @ + lamports, !.deposited = @ + lamports]
    ELSE [c EXCEPT !.poolBalance = @ + lamports, !.deposited = @ + lamports]

\* generatePayment after the headers are built: the mock balance pays
Debit(c, commitment, amount) ==
    IF c.mockMode
    THEN [c EXCEPT !.generated = @ \cup {commitment}, !.mockBalance = @ - amount,
                   !.paid = @ + amount]
    ELSE [c EXCEPT !.generated = @ \cup {commitment}]

newX402PaymentClient ==
    /\ client = NoClient
    /\ \E rpcUrl \in RpcUrls, mockMode \in BOOLEAN : client' = NewClient(rpcUrl, mockMode)
    /\ last' = [op |-> "newClient"]
    /\ UNCHANGED <<sessions, servers, handlers, network, merchantClient, usedCommitments,
                   pendingPayments, withdrawalInterval, inflight, now, hist, nRequests,
                   nTicks>>

\* initialize() to its return or to `await WasmFactory.getInstance()`
initialize ==
    /\ client.built
    /\ client.calls < MaxClientCalls
    /\ IF client.initialized
       THEN /\ client' = Began(client)
            /\ last' = [op |-> "initialize", result |-> "already"]
            /\ UNCHANGED inflight
       ELSE IF client.mockMode
       THEN /\ client' = [Began(client) EXCEPT !.initialized = TRUE]
            /\ last' = [op |-> "initialize", result |-> "done"]
            /\ UNCHANGED inflight
       ELSE /\ client' = Began(client)
            /\ inflight' = inflight \cup
                  {Suspended(client.calls + 1, "initialize", "wasm", 0, 0)}
            /\ last' = [op |-> "initialize", result |-> "pending"]
    /\ UNCHANGED <<sessions, servers, handlers, network, merchantClient, usedCommitments,
                   pendingPayments, withdrawalInterval, now, hist, nRequests, nTicks>>

getPrivateBalance ==
    /\ client.built
    /\ client.calls < MaxClientCalls
    /\ client' = Began(client)
    /\ last' = IF NotInitialized(client)
               THEN [op |-> "getPrivateBalance", error |-> NotInitializedError]
               ELSE [op |-> "getPrivateBalance", lamports |-> privateBalance(client)]
    /\ UNCHANGED <<sessions, servers, handlers, network, merchantClient, usedCommitments,
                   pendingPayments, withdrawalInterval, inflight, now, hist, nRequests,
                   nTicks>>

\* deposit(lamports) to the await of the (mock or real) deposit
deposit(lamports) ==
    /\ client.built
    /\ client.calls < MaxClientCalls
    /\ client' = Began(client)
    /\ IF NotInitialized(client)
       THEN /\ last' = [op |-> "deposit", error |-> NotInitializedError]
            /\ UNCHANGED inflight
       ELSE /\ last' = [op |-> "deposit", result |-> "pending"]
            /\ inflight' = inflight \cup
                  {Suspended(client.calls + 1, "deposit", "deposit", 0, lamports)}
    /\ UNCHANGED <<sessions, servers, handlers, network, merchantClient, usedCommitments,
                   pendingPayments, withdrawalInterval, now, hist, nRequests, nTicks>>

\* generatePayment(quote) to `await this.getPrivateBalance()`, which has read
\* the balance
generatePayment(amount) ==
    /\ client.built
    /\ client.calls < MaxClientCalls
    /\ client' = Began(client)
    /\ IF NotInitialized(client)
       THEN /\ last' = [op |-> "generatePayment", error |-> NotInitializedError]
            /\ UNCHANGED inflight
       ELSE /\ last' = [op |-> "generatePayment", result |-> "pending"]
            /\ inflight' = inflight \cup
                  {Suspended(client.calls + 1, "generatePayment", "generate",
                             privateBalance(client), amount)}
    /\ UNCHANGED <<sessions, servers, handlers, network, merchantClient, usedCommitments,
                   pendingPayments, withdrawalInterval, now, hist, nRequests, nTicks>>

\* payForAccess(url) to `await fetch(url)`
payForAccess ==
    /\ client.built
    /\ client.calls < MaxClientCalls
    /\ IF NotInitialized(client)
       THEN /\ client' = Began(client)
            /\ last' = [op |-> "payForAccess", error |-> NotInitializedError]
            /\ UNCHANGED inflight
       ELSE /\ client' = [Began(client) EXCEPT !.fetches = @ + 1]
            /\ last' = [op |-> "payForAccess", result |-> "pending"]
            /\ inflight' = inflight \cup
                  {Suspended(client.calls + 1, "payForAccess", "quote", 0, 0)}
    /\ UNCHANGED <<sessions, servers, handlers, network, merchantClient, usedCommitments,
                   pendingPayments, withdrawalInterval, now, hist, nRequests, nTicks>>

\* the call h moves on to pc, with these locals
Moves(h, pc, balance, amount, headers) ==
    (inflight \ {h}) \cup
        {[h EXCEPT !.pc = pc, !.balance = balance, !.amount = amount, !.headers = headers]}

\* the awaited promise of call h settles and h runs to its next await or to
\* its end
Resumes(h) ==
    /\ h \in inflight
    /\ CASE h.pc = "wasm" ->
              /\ client' = [client EXCEPT !.client = "PrivacyCash", !.initialized = TRUE]
              /\ inflight' = inflight \ {h}
              /\ last' = [op |-> "initialize", result |-> "done"]
         [] h.pc = "quote" ->
              \E status \in {200, 402, 500}, amount \in Amounts :
                 /\ client' = client
                 /\ IF status = 402
                    THEN /\ inflight' = Moves(h, "balance", privateBalance(client), amount,
                                              <<>>)
                         /\ last' = [op |-> "payForAccess", result |-> "quoted"]
                    ELSE /\ inflight' = inflight \ {h}
                         /\ last' = IF status = 200
                                    THEN [op |-> "payForAccess", result |-> "success"]
                                    ELSE [op |-> "payForAccess",
                                          error |-> "Unexpected status"]
         [] h.pc = "balance" ->
              /\ client' = client
              /\ last' = [op |-> "payForAccess", result |-> "balance"]
              /\ inflight' = IF h.balance < h.amount
                             THEN Moves(h, "deposit", h.balance, h.amount, <<>>)
                             ELSE Moves(h, "generate", privateBalance(client), h.amount,
                                        <<>>)
         [] h.pc = "deposit" ->
              /\ client' = Credit(client, h.amount)
              /\ IF h.method = "deposit"
                 THEN /\ inflight' = inflight \ {h}
                      /\ last' = [op |-> "deposit", result |-> "tx", lamports |-> h.amount]
                 ELSE /\ inflight' = Moves(h, "balance2", privateBalance(client'),
                                           h.amount, <<>>)
                      /\ last' = [op |-> "payForAccess", result |-> "deposited"]
         [] h.pc = "balance2" ->
              /\ client' = client
              /\ last' = [op |-> "payForAccess", result |-> "balance"]
              /\ inflight' = Moves(h, "generate", privateBalance(client), h.amount, <<>>)
         [] h.pc = "generate" ->
              IF h.balance < h.amount
              THEN /\ client' = client
                   /\ inflight' = inflight \ {h}
                   /\ last' = [op |-> h.method, error |-> "InsufficientBalance",
                               required |-> h.amount, available |-> h.balance]
              ELSE \E commitment \in Commitments \ client.generated :
                      LET headers == Headers(client, commitment, h.balance, now)
                      IN IF h.method = "generatePayment"
                         THEN /\ client' = Debit(client, commitment, h.amount)
                              /\ inflight' = inflight \ {h}
                              /\ last' = [op |-> "generatePayment", result |-> "headers",
                                          headers |-> headers, amount |-> h.amount]
                         ELSE /\ client' = [Debit(client, commitment, h.amount)
                                               EXCEPT !.fetches = @ + 1]
                              /\ inflight' = Moves(h, "paid", h.balance, h.amount, headers)
                              /\ last' = [op |-> "payForAccess", result |-> "sent",
                                          headers |-> headers, amount |-> h.amount]
         [] h.pc = "paid" ->
              \E ok \in BOOLEAN :
                 /\ client' = client
                 /\ inflight' = inflight \ {h}
                 /\ last' = IF ok THEN [op |-> "payForAccess", result |-> "success"]
                                  ELSE [op |-> "payForAccess", error |-> "Payment failed"]
    /\ UNCHANGED <<sessions, servers, handlers, network, merchantClient, usedCommitments,
                   pendingPayments, withdrawalInterval, now, hist, nRequests, nTicks>>

Deposit == \E lamports \in Amounts : deposit(lamports)

GeneratePayment == \E amount \in Amounts : generatePayment(amount)

ClientResumes == \E h \in inflight : Resumes(h)

NextClient ==
    \/ newX402PaymentClient
    \/ initialize
    \/ getPrivateBalance
    \/ Deposit
    \/ GeneratePayment
    \/ payForAccess
    \/ ClientResumes

SpecClient == InitInstances /\ [][NextClient]_vars

\* the client sends the headers generatePayment returned to the server, or sends
\* once more the request the server has just answered
Submit ==
    /\ last.op \in {"generatePayment", "request"}
    /\ IF last.op = "generatePayment"
       THEN "headers" \in DOMAIN last /\ middleware(last.headers)
       ELSE middleware(last.req)

\* time passes
ClockAdvances ==
    /\ now < StartTime + MaxTicks * WithdrawalIntervalMs
    /\ now' = now + WithdrawalIntervalMs
    /\ UNCHANGED <<client, sessions, servers, handlers, network, merchantClient,
                   usedCommitments, pendingPayments, withdrawalInterval, inflight, last,
                   hist, nRequests, nTicks>>

NextAgreement ==
    \/ newX402PaymentClient
    \/ initialize
    \/ Deposit
    \/ GeneratePayment
    \/ ClientResumes
    \/ Submit
    \/ ClockAdvances

SpecAgreement == InitInstances /\ [][NextAgreement]_vars

----------------------------------------------------------------------------
(* The prototype server (src/server/index.ts).  Its ledger is the module's  *)
(* usedCommitments and pendingPayments.  The GET /premium handler is async: *)
(* it runs to `await verifyPrivacyCashBalance(...)` in one step and its     *)
(* continuation is a job of the microtask queue.  The handlers of requests  *)
(* that the HTTP parser reads from one chunk of a connection are all        *)
(* entered before that queue is drained.  Here inflight holds the           *)
(* suspended handlers.                                                      *)

API_PRICE == 10000000
NETWORK == "devnet"

\* a wallet header that new PublicKey() rejects
InvalidWallet == "notAPublicKey"

\* verifyPrivacyCashBalance: true, unless new PublicKey(walletAddress) throws
verifyPrivacyCashBalance(walletAddress, requiredAmount) == walletAddress \in Wallets

\* the handler up to its await: the response it sends, or "await"
premiumChecks(req, used) ==
    LET decoded == req.xPayment
        commitment == req.commitment
        walletAddress == req.walletAddress
        fault == [status |-> 500, error |-> "Payment verification failed"]
    IN  IF Falsy(decoded)
        THEN [status |-> 402, error |-> "Payment required"]
        ELSE IF decoded.type \in {"notJSON", "null"}
        THEN fault
        ELSE IF Get(decoded, "scheme") # "privacycash"
        THEN [status |-> 400, error |-> "Invalid payment scheme"]
        ELSE IF Get(decoded, "network") # "solana-" \o NETWORK
        THEN [status |-> 400, error |-> "Invalid network"]
        ELSE IF commitment = Undefined \/ walletAddress = Undefined
        THEN [status |-> 400, error |-> "Missing required headers"]
        ELSE IF "payload" \notin DOMAIN decoded
        THEN fault
        ELSE IF hashNote(commitment) # Get(decoded.payload, "noteHash")
        THEN [status |-> 400, error |-> "Commitment hash mismatch"]
        ELSE IF commitment \in used
        THEN [status |-> 402, error |-> "Commitment already used"]
        ELSE [status |-> 0, error |-> "await"]

PrototypeRequests(t) ==
    {Deviant(c, w, t, dev) :
        c \in Commitments, w \in {"w1", InvalidWallet},
        dev \in {"none", "noHeader", "notJSON", "scheme", "noteHash"}}

\* GET /premium, from the arrival of the request to the first response or to
\* the await of the balance check
PremiumRequest ==
    /\ nRequests < MaxRequests
    /\ nRequests' = nRequests + 1
    /\ \E req \in PrototypeRequests(now) :
          LET response == premiumChecks(req, usedCommitments)
          IN IF response.error = "await"
             THEN /\ inflight' = inflight \cup
                        {[id |-> nRequests + 1, req |-> req,
                          hasBalance |-> verifyPrivacyCashBalance(req.walletAddress,
                                                                  API_PRICE)]}
                  /\ last' = [op |-> "premium", req |-> req, response |-> response]
             ELSE /\ last' = [op |-> "premium", req |-> req, response |-> response]
                  /\ UNCHANGED inflight
    /\ UNCHANGED <<client, sessions, servers, handlers, network, merchantClient, usedCommitments, pendingPayments,
                   withdrawalInterval, now, hist, nTicks>>

\* the continuation of the handler suspended longest: the jobs of the
\* microtask queue run in the order in which they were queued
PremiumContinues ==
    \E h \in inflight :
        /\ \A g \in inflight : h.id <= g.id
        /\ inflight' = inflight \ {h}
        /\ IF ~h.hasBalance
           THEN /\ last' = [op |-> "premiumContinued", req |-> h.req,
                            response |-> [status |-> 402,
                                          error |-> "Insufficient private balance"]]
                /\ UNCHANGED <<usedCommitments, pendingPayments, hist>>
           ELSE /\ usedCommitments' = usedCommitments \cup {h.req.commitment}
                /\ pendingPayments' =
                      [k \in DOMAIN pendingPayments \cup {h.req.commitment} |->
                          IF k = h.req.commitment
                          THEN [commitment |-> h.req.commitment, amount |-> API_PRICE,
                                userWallet |-> h.req.walletAddress, timestamp |-> now,
                                verified |-> TRUE]
                          ELSE pendingPayments[k]]
                /\ hist' = [hist EXCEPT ![h.req.commitment].ok = @ + 1]
                /\ last' = [op |-> "premiumContinued", req |-> h.req,
                            response |-> [status |-> 200, error |-> "none"]]
        /\ UNCHANGED <<client, sessions, servers, handlers, network, merchantClient, withdrawalInterval, now, nRequests,
                       nTicks>>

NextPrototype == PremiumRequest \/ PremiumContinues

SpecPrototype == Init /\ [][NextPrototype]_vars

----------------------------------------------------------------------------
(* Properties *)

\* the last handler was a request that went through verifyPayment
Verified == last.op = "request" /\ last.outcome.result # "Quote"

\* the commitment the last request presented had been accepted before it
AcceptedBefore ==
    /\ Verified
    /\ last.req.commitment \in Commitments
    /\ hist[last.req.commitment].ok
           - (IF last.outcome.result = "Ok" THEN 1 ELSE 0) >= 1

\* the request passes the checks that come before the double-spend check
PassesEarlierChecks(req) ==
    /\ req.xPayment.type = "object"
    /\ Get(req.xPayment, "scheme") = "privacycash"
    /\ Get(req.xPayment, "network") = "solana-" \o network
    /\ req.commitment # Undefined
    /\ req.walletAddress # Undefined
    /\ "payload" \in DOMAIN req.xPayment
    /\ req.xPayment.payload.noteHash = hashNote(req.commitment)

\* C1: of the requests that present one commitment with an otherwise valid
\* payload, handled in any order and interleaved with the scheduler in any way,
\* exactly one is granted and every other one is rejected as DoubleSpend; no
\* commitment is granted twice, and next() is called for the granted request only.
C1_DoubleSpendExclusivity ==
    /\ \A c \in Commitments :
        /\ hist[c].ok <= 1
        /\ hist[c].valid >= 1 =>
              /\ hist[c].validOk = 1
              /\ hist[c].validDoubleSpend = hist[c].valid - 1
    /\ last.op = "request" => (last.response.next <=> last.outcome.result = "Ok")

\* three otherwise valid requests presented the same commitment
C1_Witness ==
    \E c \in Commitments :
        hist[c].valid >= 3 /\ hist[c].validOk = 1 /\ hist[c].validDoubleSpend >= 2

C3_LedgerInvariant ==
    /\ [](DOMAIN pendingPayments \subseteq usedCommitments)
    /\ [][usedCommitments \subseteq usedCommitments']_vars

\* a used commitment whose payment left the pending map, after stop()
C3_Witness ==
    /\ withdrawalInterval = "cleared"
    /\ \E c \in usedCommitments : c \notin DOMAIN pendingPayments
    /\ \E c \in usedCommitments : c \in DOMAIN pendingPayments

\* the X-Privacy-Commitment header's hash differs from the payload's noteHash
HashDiffers(req) ==
    /\ req.xPayment.type = "object"
    /\ "payload" \in DOMAIN req.xPayment
    /\ req.commitment # Undefined
    /\ hashNote(req.commitment) # req.xPayment.payload.noteHash

\* C4, as claimed: a request whose commitment's hash differs from noteHash is
\* rejected with InvalidPayment, whatever its other fields.
C4_Original ==
    (Verified /\ HashDiffers(last.req)) => last.outcome.result = "InvalidPayment"

\* C4, amended: a request whose commitment's hash differs from noteHash is never
\* granted: it is rejected with NetworkMismatch when its scheme is right and its
\* network is wrong, and with InvalidPayment in every other case, whatever its
\* balance proof and whether or not the commitment was used.
C4_HashBinding ==
    (Verified /\ HashDiffers(last.req)) =>
        /\ ~last.response.next
        /\ last.outcome.result =
             IF /\ Get(last.req.xPayment, "scheme") = "privacycash"
                /\ Get(last.req.xPayment, "network") # "solana-" \o network
             THEN "NetworkMismatch"
             ELSE "InvalidPayment"

\* a hash mismatch rejected as InvalidPayment on a request with nothing else wrong
C4_Witness ==
    /\ Verified
    /\ HashDiffers(last.req)
    /\ last.outcome.result = "InvalidPayment"
    /\ last.req.walletAddress # Undefined
    /\ Get(last.req.xPayment, "scheme") = "privacycash"
    /\ Get(last.req.xPayment, "network") = "solana-" \o network
    /\ last.req.commitment \notin usedCommitments
    /\ verifyBalance(last.req.xPayment.payload.balanceProof, ApiPrice, last.at)

\* the commitment the last request presented was in the used set before it
UsedBefore ==
    /\ last.req.commitment \in Commitments
    /\ hist[last.req.commitment].ok
           - (IF last.outcome.result = "Ok" THEN 1 ELSE 0) >= 1

\* the balance proof is one the verifier is meant to accept at time t
ProofAcceptable(proof, t) ==
    /\ proof.type = "object"
    /\ {"balance", "timestamp"} \subseteq DOMAIN proof
    /\ t - proof.timestamp <= BALANCE_PROOF_VALIDITY_MS
    /\ proof.balance >= ApiPrice

\* the reason of the first check that fails, in the order decode, scheme, network,
\* required headers, hash binding, double spend, balance proof; a check fails
\* also when the document lacks the member it reads
FirstFailure(req, usedBefore, t) ==
    LET x == req.xPayment
    IN  IF x.type = "notJSON" THEN "InvalidPayment"
        ELSE IF x.type # "object" \/ Get(x, "scheme") # "privacycash"
        THEN "InvalidPayment"
        ELSE IF Get(x, "network") # "solana-" \o network THEN "NetworkMismatch"
        ELSE IF req.commitment = Undefined \/ req.walletAddress = Undefined
        THEN "InvalidPayment"
        ELSE IF "payload" \notin DOMAIN x
        THEN "InvalidPayment"
        ELSE IF x.payload.noteHash # hashNote(req.commitment) THEN "InvalidPayment"
        ELSE IF usedBefore THEN "DoubleSpend"
        ELSE IF ~ProofAcceptable(x.payload.balanceProof, t) THEN "InsufficientBalance"
        ELSE "Ok"

\* C5: verification reports the reason of the first failing check, in the order
\* decode, scheme, network, required headers, hash binding, double spend,
\* balance proof.
C5_FirstFailingCheck ==
    Verified => last.outcome.result = FirstFailure(last.req, UsedBefore, last.at)

\* C5 on the requests whose payload has the members the checks read: the order
\* holds whenever verification ends without a TypeError
C5_OrderWhenTyped ==
    (Verified /\ last.outcome.result # "TypeError") =>
        last.outcome.result = FirstFailure(last.req, UsedBefore, last.at)

\* the step is a request handled by the middleware
RequestStep == nRequests' = nRequests + 1

\* C6: a verification rejected as InvalidPayment, NetworkMismatch, DoubleSpend or
\* InsufficientBalance leaves the used set and the pending map as they were; a
\* commitment rejected as InsufficientBalance is not in the used set for it,
\* and is granted when presented later with an otherwise valid request.
C6_RejectionChangesNothing ==
    /\ [][(RequestStep /\ last'.outcome.result \in Rejections) =>
             UNCHANGED <<usedCommitments, pendingPayments>>]_vars
    /\ [][(/\ RequestStep
           /\ last'.req.commitment \in Commitments
           /\ hist[last'.req.commitment].insufficient
           /\ hist[last'.req.commitment].ok = 0
           /\ last'.outcome.result # "Quote"
           /\ OtherwiseValid(last'.req, now)) =>
             last'.outcome.result = "Ok"]_vars
    /\ [](\A c \in Commitments :
            (hist[c].insufficient /\ hist[c].ok = 0) => c \notin usedCommitments)

\* a commitment granted after it had been rejected as InsufficientBalance
C6_Witness ==
    /\ Verified
    /\ last.outcome.result = "Ok"
    /\ hist[last.req.commitment].insufficient
    /\ last.req.commitment \in DOMAIN pendingPayments

\* C7: a granted verification of commitment c adds c to the used set and one
\* entry to the pending map, under the key c, with commitment c, the configured
\* price, the X-Wallet-Address header as payer, the time of the request and
\* verified = true, and touches no other entry; so every pending entry is
\* verified, of the configured price and filed under its own commitment.
C7_AcceptanceEffect ==
    /\ [][(RequestStep /\ last'.outcome.result = "Ok") =>
            LET c == last'.req.commitment
            IN /\ usedCommitments' = usedCommitments \cup {c}
               /\ c \notin DOMAIN pendingPayments
               /\ DOMAIN pendingPayments' = DOMAIN pendingPayments \cup {c}
               /\ pendingPayments'[c] =
                     [commitment |-> c, amount |-> ApiPrice,
                      userWallet |-> last'.req.walletAddress, timestamp |-> now,
                      verified |-> TRUE]
               /\ \A k \in DOMAIN pendingPayments :
                     pendingPayments'[k] = pendingPayments[k]]_vars
    /\ [](\A k \in DOMAIN pendingPayments :
            /\ pendingPayments[k].verified
            /\ pendingPayments[k].amount = ApiPrice
            /\ pendingPayments[k].commitment = k
            /\ pendingPayments[k].userWallet \in Wallets)

\* two entries pending, of different payers, the second just granted
C7_Witness ==
    /\ Verified
    /\ last.outcome.result = "Ok"
    /\ Cardinality(DOMAIN pendingPayments) = 2
    /\ \E j, k \in DOMAIN pendingPayments :
          pendingPayments[j].userWallet # pendingPayments[k].userWallet

\* the sum of the amounts of the entries filed under the keys
RECURSIVE AmountUnder(_, _)
AmountUnder(pending, keys) ==
    IF keys = {} THEN 0
    ELSE LET k == CHOOSE j \in keys : TRUE
         IN pending[k].amount + AmountUnder(pending, keys \ {k})

\* C8: with a merchant client, a tick that finds payments pending issues exactly
\* one withdraw call, for the sum of their amounts and to the merchant wallet,
\* and when that call succeeds every payment of its batch is gone from the
\* pending map.
C8_BatchAccounting ==
    /\ [][(/\ nTicks' = nTicks + 1
           /\ merchantClient = "PrivacyCash"
           /\ DOMAIN pendingPayments # {}) =>
            \E call \in inflight' :
               /\ call \notin inflight
               /\ inflight' = inflight \cup {call}
               /\ last'.calls = {call}
               /\ call.lamports = AmountUnder(pendingPayments, DOMAIN pendingPayments)
               /\ call.recipientAddress = MerchantWallet
               /\ call.batch = {pendingPayments[k] : k \in DOMAIN pendingPayments}
               /\ pendingPayments' = pendingPayments]_vars
    /\ [][(inflight' # inflight /\ last'.op = "withdrawn") =>
            /\ \A p \in last'.call.batch : p.commitment \notin DOMAIN pendingPayments'
            /\ \A k \in DOMAIN pendingPayments :
                  (\A p \in last'.call.batch : p.commitment # k) =>
                      (k \in DOMAIN pendingPayments'
                       /\ pendingPayments'[k] = pendingPayments[k])]_vars

\* a withdrawal of two payments' amounts succeeded and emptied the pending map
C8_Witness ==
    /\ last.op = "withdrawn"
    /\ Cardinality(last.call.batch) = 2
    /\ last.call.lamports = 2 * ApiPrice
    /\ DOMAIN pendingPayments = {}

\* C9: when the withdraw call of a tick fails, every payment of that tick's batch
\* is still in the pending map and the scheduler keeps ticking.
C9_FailureKeepsBatch ==
    last.op = "withdrawFailed" =>
        \A p \in last.call.batch :
            /\ p.commitment \in DOMAIN pendingPayments
            /\ pendingPayments[p.commitment] = p

\* C9 for the failing step alone: the catch block changes neither the pending
\* map nor the used set, and leaves the timer as it was
C9_FailureChangesNothing ==
    [][(inflight' # inflight /\ last'.op = "withdrawFailed") =>
          UNCHANGED <<usedCommitments, pendingPayments, withdrawalInterval>>]_vars

\* C10: a tick that finds the pending map empty changes neither the pending map
\* nor the used set and issues no withdraw call, the first time and the next.
C10_EmptyTick ==
    [][(nTicks' = nTicks + 1 /\ DOMAIN pendingPayments = {}) =>
          /\ UNCHANGED <<usedCommitments, pendingPayments, inflight>>
          /\ last'.calls = {}
          /\ last'.path = "empty"]_vars

\* two ticks in a row on an empty pending map, with a merchant client
C10_Witness ==
    /\ nTicks = 2
    /\ nRequests = 0
    /\ last.op = "tick"
    /\ last.path = "empty"
    /\ merchantClient = "PrivacyCash"
    /\ inflight = {}

\* C11: without a merchant client, a tick removes from the pending map every entry
\* that was pending when it started, issues no withdraw call and leaves the used
\* set as it was; and a server constructed without a usable merchantKeypair never
\* has a merchant client, so it never has a withdraw call in flight.
C11_SimulatedSettlement ==
    /\ [][(nTicks' = nTicks + 1 /\ merchantClient = "null") =>
            /\ \A k \in DOMAIN pendingPayments : k \notin DOMAIN pendingPayments'
            /\ DOMAIN pendingPayments' = {}
            /\ last'.calls = {}
            /\ inflight' = inflight
            /\ usedCommitments' = usedCommitments]_vars
    /\ [](merchantClient = "null" => inflight = {})

\* a simulated tick took a batch of two payments and left the pending map empty,
\* both commitments still used
C11_Witness ==
    /\ merchantClient = "null"
    /\ last.op = "tick"
    /\ last.path = "simulated"
    /\ Cardinality(last.batch) = 2
    /\ DOMAIN pendingPayments = {}
    /\ usedCommitments = Commitments

\* C12: while the timer runs and a tick is still to fire after the withdrawals
\* that fail, every payment in the pending map is eventually removed from it,
\* with or without a merchant client; and an entry leaves the pending map only in
\* a simulated tick whose batch contains it or on the success of a withdraw call
\* whose batch contains it.
C12_EventualSettlement ==
    /\ \A c \in Commitments :
          (c \in DOMAIN pendingPayments /\ nTicks < MaxTicks)
              ~> (c \notin DOMAIN pendingPayments)
    /\ [][\A k \in DOMAIN pendingPayments :
            k \notin DOMAIN pendingPayments' =>
               \/ /\ nTicks' = nTicks + 1
                  /\ last'.path = "simulated"
                  /\ pendingPayments[k] \in last'.batch
               \/ /\ inflight' # inflight
                  /\ last'.op = "withdrawn"
                  /\ pendingPayments[k] \in last'.call.batch]_vars

\* the withdraw call of a tick past the failing ones succeeded and removed the
\* two payments that were pending
C12_Witness ==
    /\ last.op = "withdrawn"
    /\ last.call.id > MaxFailures
    /\ Cardinality(last.call.batch) = 2
    /\ inflight = {}
    /\ DOMAIN pendingPayments = {}
    /\ usedCommitments = Commitments

\* C13: a payment granted while withdraw calls are in flight is in none of their
\* batches and in none of their totals; when such a call settles, successfully or
\* not, the entries outside its batch stay pending as they are; the batch of every
\* tick is everything pending when it fires; and an entry leaves the pending map
\* only with a simulated batch or a successful call's batch that contains it.
C13_InterleavingSafety ==
    /\ [][(RequestStep /\ last'.outcome.result = "Ok") =>
            \A call \in inflight :
               /\ call \in inflight'
               /\ pendingPayments'[last'.req.commitment] \notin call.batch
               /\ call.lamports = Cardinality(call.batch) * ApiPrice]_vars
    /\ [][(inflight' # inflight /\ last'.op \in {"withdrawn", "withdrawFailed"}) =>
            \A k \in DOMAIN pendingPayments :
               pendingPayments[k] \notin last'.call.batch =>
                  (k \in DOMAIN pendingPayments'
                   /\ pendingPayments'[k] = pendingPayments[k])]_vars
    /\ [][nTicks' = nTicks + 1 =>
            last'.batch = {pendingPayments[k] : k \in DOMAIN pendingPayments}]_vars
    /\ [][\A k \in DOMAIN pendingPayments :
            k \notin DOMAIN pendingPayments' =>
               /\ last'.op \in {"tick", "withdrawn"}
               /\ last'.op = "tick" =>
                     (last'.path = "simulated" /\ pendingPayments[k] \in last'.batch)
               /\ last'.op = "withdrawn" => pendingPayments[k] \in last'.call.batch]_vars

\* a withdraw call succeeded and a payment granted after its tick, while it was
\* in flight, is still pending
C13_Witness ==
    /\ last.op = "withdrawn"
    /\ last.call.batch # {}
    /\ \A p \in last.call.batch : p.commitment \notin DOMAIN pendingPayments
    /\ \E k \in DOMAIN pendingPayments :
          /\ pendingPayments[k] \notin last.call.batch
          /\ pendingPayments[k].timestamp = StartTime + last.call.id * WithdrawalIntervalMs
          /\ now = pendingPayments[k].timestamp

\* C14: whatever the X-Payment header holds, verification ends granted or with a
\* typed rejection, InvalidPayment when the payload is undecodable or malformed;
\* no request is answered 500 for an error that is no X402Error.
C14_NoUntypedFault ==
    Verified =>
        /\ last.outcome.result \in Rejections \cup {"Ok"}
        /\ last.response.status # 500
        /\ (last.req.xPayment.type # "object" \/ "payload" \notin DOMAIN last.req.xPayment)
              => last.outcome.result \in {"InvalidPayment", "NetworkMismatch"}

\* the status and the code string the reasons are to be answered with
StatusOf(reason) == IF reason \in {"InvalidPayment", "NetworkMismatch"} THEN 400 ELSE 402

CodeOf(reason) ==
    CASE reason = "InvalidPayment" -> "INVALID_PAYMENT"
      [] reason = "NetworkMismatch" -> "NETWORK_MISMATCH"
      [] reason = "DoubleSpend" -> "DOUBLE_SPEND"
      [] reason = "InsufficientBalance" -> "INSUFFICIENT_BALANCE"

\* the last request carried a payment and was not forwarded
Rejected == Verified /\ ~last.response.next

\* C15: every rejected request is answered 400 for InvalidPayment and
\* NetworkMismatch and 402 for DoubleSpend and InsufficientBalance, with the
\* reason's code string in the JSON body, and with no other status.
C15_StatusMapping ==
    Rejected =>
        /\ last.response.status \in {400, 402}
        /\ last.outcome.result \in Rejections
        /\ last.response.status = StatusOf(last.outcome.result)
        /\ last.response.body.code = CodeOf(last.outcome.result)

\* C15 for the rejections that have a reason
C15_MappingWhenTyped ==
    (Rejected /\ last.outcome.result \in Rejections) =>
        /\ last.response.status = StatusOf(last.outcome.result)
        /\ last.response.body.code = CodeOf(last.outcome.result)
        /\ last.response.body.statusCode = last.response.status

\* the last request's payload has the right scheme and another network tag than
\* the server's
WrongNetwork ==
    /\ Verified
    /\ last.req.xPayment.type = "object"
    /\ Get(last.req.xPayment, "scheme") = "privacycash"
    /\ Get(last.req.xPayment, "network") # "solana-" \o network

\* C16: a payload with the right scheme and a network tag other than
\* solana-<server network> is rejected as NetworkMismatch, and the response body
\* has the expected and the received network as members of their own.
C16_NetworkMismatchResponse ==
    WrongNetwork =>
        /\ last.outcome.result = "NetworkMismatch"
        /\ last.response.status = 400
        /\ {"expected", "received"} \subseteq DOMAIN last.response.body
        /\ last.response.body.expected = "solana-" \o network
        /\ last.response.body.received = Get(last.req.xPayment, "network")

\* C16 without the response's members: the rejection itself, with both values in
\* the error object and in the message text
C16_NetworkMismatchRejected ==
    WrongNetwork =>
        /\ last.outcome.result = "NetworkMismatch"
        /\ last.outcome.expected = "solana-" \o network
        /\ last.outcome.received = Get(last.req.xPayment, "network")
        /\ last.response.status = 400
        /\ last.response.body.code = "NETWORK_MISMATCH"
        /\ last.response.body.error = last.outcome.message

\* the three things the middleware does with a request
SendsQuote(response) ==
    ~response.next /\ response.status = 402 /\ response.body = generateQuote

CallsNext(response) == response.next /\ "body" \notin DOMAIN response

SendsError(response) ==
    /\ ~response.next
    /\ response.status \in {400, 402, 500}
    /\ "error" \in DOMAIN response.body

\* C17: a request gets exactly one of a 402 quote, next() and an error response;
\* the quote if and only if X-Payment is absent or empty; next() if and only if
\* verification succeeded, which is if and only if this request newly marked its
\* commitment used; next() never comes with a response and never leaves the
\* ledger unchanged.
C17_Trichotomy ==
    [][RequestStep =>
        LET response == last'.response
            xPayment == last'.req.xPayment
            newlyUsed == /\ last'.req.commitment \notin usedCommitments
                         /\ usedCommitments' = usedCommitments \cup {last'.req.commitment}
        IN /\ Cardinality({o \in {"quote", "next", "error"} :
                             \/ o = "quote" /\ SendsQuote(response)
                             \/ o = "next" /\ CallsNext(response)
                             \/ o = "error" /\ SendsError(response)}) = 1
           /\ SendsQuote(response) <=> xPayment.type \in {"absent", "empty"}
           /\ CallsNext(response) <=> last'.outcome.result = "Ok"
           /\ CallsNext(response) <=> newlyUsed
           /\ response.next => ("body" \notin DOMAIN response /\ ledger' # ledger)
           /\ ledger' = ledger => ~response.next]_vars

\* an empty X-Payment header was answered with the quote after a payment had been
\* forwarded
C17_Witness ==
    /\ last.op = "request"
    /\ last.req.xPayment.type = "empty"
    /\ SendsQuote(last.response)
    /\ usedCommitments # {}

\* C18: a request without a payment header is answered 402 with the quote of the
\* configuration - recipient the merchant wallet, token SOL, amount the API price,
\* cluster the server's network - whatever the ledger holds and whatever the
\* other two headers are, and the used set and the pending map stay as they were.
C18_QuoteIsPure ==
    [][(RequestStep /\ last'.req.xPayment.type \in {"absent", "empty"}) =>
          /\ ~last'.response.next
          /\ last'.response.status = 402
          /\ last'.response.body.payment =
                [recipientWallet |-> MerchantWallet, tokenSymbol |-> "SOL",
                 amount |-> ApiPrice, cluster |-> network]
          /\ usedCommitments' = usedCommitments
          /\ pendingPayments' = pendingPayments]_vars

\* a quote sent while a payment is pending, to a request that names the used
\* commitment in its X-Privacy-Commitment header
C18_Witness ==
    /\ last.op = "request"
    /\ last.req.xPayment.type = "absent"
    /\ last.req.commitment \in usedCommitments
    /\ last.req.commitment \in DOMAIN pendingPayments
    /\ last.req.walletAddress \in Wallets
    /\ last.response.status = 402
    /\ last.response.body.payment.amount = ApiPrice

\* verifyBalance ran last, on a proof that has a timestamp and a balance that
\* covers the amount required
CheckedSufficient ==
    /\ last.op = "verifyBalance"
    /\ last.balanceProof.type = "object"
    /\ {"balance", "timestamp"} \subseteq DOMAIN last.balanceProof
    /\ last.balanceProof.balance >= last.required

\* C19: with sufficient balance, a proof stamped now - validityWindow - 1 is
\* rejected, a proof stamped now - validityWindow + 1 is accepted and a proof
\* stamped exactly now - validityWindow is accepted: the proof is rejected
\* exactly when now - timestamp > validityWindow.
C19_FreshnessBoundary ==
    CheckedSufficient =>
        LET age == last.at - last.balanceProof.timestamp
        IN /\ age = BALANCE_PROOF_VALIDITY_MS + 1 => ~last.result
           /\ age = BALANCE_PROOF_VALIDITY_MS - 1 => last.result
           /\ age = BALANCE_PROOF_VALIDITY_MS => last.result
           /\ last.result <=> ~(age > BALANCE_PROOF_VALIDITY_MS)

\* a proof stamped exactly one validity window ago was accepted, after the clock
\* had advanced
C19_Witness ==
    /\ CheckedSufficient
    /\ last.at > StartTime
    /\ last.at - last.balanceProof.timestamp = BALANCE_PROOF_VALIDITY_MS
    /\ last.result

\* the blob decodes to a proof that has a balance and a timestamp
DecodesToProof(balanceProof) ==
    /\ balanceProof.type = "object"
    /\ {"balance", "timestamp"} \subseteq DOMAIN balanceProof

\* C20: verifyBalance returns true only for a blob that decodes to a proof with
\* now - timestamp <= validityWindow and balance >= required; for every other
\* blob, undecodable or lacking the balance or the timestamp, it returns false;
\* and it never throws.
C20_AcceptanceCondition ==
    last.op = "verifyBalance" =>
        /\ last.result \in BOOLEAN
        /\ last.result <=>
              /\ DecodesToProof(last.balanceProof)
              /\ last.at - last.balanceProof.timestamp <= BALANCE_PROOF_VALIDITY_MS
              /\ last.balanceProof.balance >= last.required

\* C20 for the blobs that decode to a proof with both members, and for those
\* whose decoding throws
C20_AcceptanceWhenComplete ==
    last.op = "verifyBalance" =>
        /\ last.result \in BOOLEAN
        /\ DecodesToProof(last.balanceProof) =>
              (last.result <=>
                  /\ last.at - last.balanceProof.timestamp <= BALANCE_PROOF_VALIDITY_MS
                  /\ last.balanceProof.balance >= last.required)
        /\ last.try = "throws" => ~last.result
        /\ last.balanceProof.type \in {"undefined", "notJSON", "null"} => ~last.result

\* C21: decoding the header the client makes of a payload gives the payload
\* back, equal in every member, the balanceProof blob included, and the blob
\* decodes to the proof it was made of.
C21_RoundTrip ==
    last.op = "decode" =>
        /\ last.decoded = last.payload
        /\ JSONstringify(last.decoded) = JSONstringify(last.payload)
        /\ LET blob == last.decoded.m[4][2].m[4][2].s
           IN Encode(Decode(blob)) = blob

\* a payload whose commitment is a quote, on mainnet, with a proof whose wallet
\* has a character outside ASCII, came back
C21_Witness ==
    /\ last.op = "decode"
    /\ last.payload.m[4][2].m[2][2].s = <<34>>
    /\ last.payload.m[3][2].s = CodeUnits("solana-mainnet-beta")
    /\ Decode(last.payload.m[4][2].m[4][2].s) = CodecProof(ApiPrice, StartTime, <<233, 34>>)
    /\ last.decoded = last.payload

\* C22: once stop() was called no tick starts and the timer stays cleared; stop()
\* leaves the withdraw calls in flight and the ledger as they are, and a call
\* that succeeds after it still removes its batch; a further stop() changes
\* nothing; and a request that is valid for an unused commitment is still
\* granted.
C22_CleanStop ==
    /\ [][withdrawalInterval = "cleared" =>
            /\ withdrawalInterval' = "cleared"
            /\ nTicks' = nTicks
            /\ now' = now
            /\ \/ RequestStep /\ inflight' = inflight
               \/ /\ nRequests' = nRequests
                  /\ inflight' # inflight /\ inflight' \subseteq inflight
                  /\ last'.op \in {"withdrawn", "withdrawFailed"}]_vars
    /\ [][withdrawalInterval' # withdrawalInterval =>
            UNCHANGED <<inflight, usedCommitments, pendingPayments, last>>]_vars
    /\ [][(withdrawalInterval = "cleared" /\ inflight' # inflight
           /\ last'.op = "withdrawn") =>
            /\ last'.call \in inflight
            /\ \A p \in last'.call.batch : p.commitment \notin DOMAIN pendingPayments']_vars
    /\ [][(withdrawalInterval = "cleared" /\ RequestStep
           /\ OtherwiseValid(last'.req, now)
           /\ last'.req.commitment \notin usedCommitments) =>
            /\ last'.outcome.result = "Ok"
            /\ last'.req.commitment \in DOMAIN pendingPayments']_vars

\* the timer is cleared after one tick, that tick's withdraw call has succeeded
\* and a payment granted at the tick's time is pending, never to be settled
C22_Witness ==
    /\ withdrawalInterval = "cleared"
    /\ nTicks = 1
    /\ last.op = "withdrawn"
    /\ last.call.batch # {}
    /\ inflight = {}
    /\ \E k \in DOMAIN pendingPayments : pendingPayments[k].timestamp = now

\* C23: with withdraw calls that never return, every tick of the interval still
\* fires; a tick that finds payments pending processes them all, issuing a new
\* call whatever is outstanding; and a request is handled whatever is
\* outstanding, a valid one for an unused commitment being granted.
C23_NoStall ==
    /\ \A n \in 0..(MaxTicks - 1) : (nTicks = n /\ inflight # {}) ~> (nTicks = n + 1)
    /\ [](nTicks < MaxTicks => ENABLED Tick)
    /\ [](nRequests < MaxRequests => ENABLED Pay)
    /\ [][(nTicks' = nTicks + 1 /\ inflight # {}) =>
            /\ inflight \subseteq inflight'
            /\ DOMAIN pendingPayments # {} =>
                  \E call \in inflight' \ inflight :
                      call.batch = {pendingPayments[k] : k \in DOMAIN pendingPayments}]_vars
    /\ [][(RequestStep /\ inflight # {}
           /\ last'.req.commitment \notin usedCommitments) =>
            /\ last'.outcome.result = "Ok"
            /\ inflight' = inflight]_vars

\* two withdraw calls are outstanding: the tick that just fired issued the second
\* for the payment of the first and one granted while the first was outstanding
C23_Witness ==
    /\ Cardinality(inflight) = 2
    /\ last.op = "tick"
    /\ last.path = "withdraw"
    /\ \E a, b \in inflight :
          /\ a.id < b.id
          /\ last.calls = {b}
          /\ a.batch # {}
          /\ a.batch \subseteq b.batch
          /\ a.batch # b.batch

\* the amounts of the pending map, added up in lamports as they are stored
PendingLamports == Sum({pendingPayments[k] : k \in DOMAIN pendingPayments})

\* C24: getStats returns the size of the used set, the number of pending
\* entries and the sum of the pending amounts in lamports, the unit in which
\* the amounts are stored, and calling it changes no state.
C24_StatsProjection ==
    /\ [](last.op = "stats" =>
            /\ last.stats.usedCommitments = Cardinality(usedCommitments)
            /\ last.stats.pendingPayments = Cardinality(DOMAIN pendingPayments)
            /\ last.stats.totalPendingAmount = Number(PendingLamports))
    /\ [][last'.op = "stats" => UNCHANGED <<ledger, inflight, withdrawalInterval, now>>]_vars

\* C24, what the code does: the two sizes are as claimed and nothing changes,
\* and the total is the sum of the pending amounts divided by 1e9
C24_StatsInSol ==
    /\ [](last.op = "stats" =>
            /\ last.stats.usedCommitments = Cardinality(usedCommitments)
            /\ last.stats.pendingPayments = Cardinality(DOMAIN pendingPayments)
            /\ last.stats.totalPendingAmount.num * LAMPORTS_PER_SOL
                 = PendingLamports * last.stats.totalPendingAmount.den)
    /\ [][last'.op = "stats" => UNCHANGED <<ledger, inflight, withdrawalInterval, now>>]_vars

\* the withdraw promise of a call resolves in this step
ResolveStep == last'.op = "withdrawn" /\ last'.call \in inflight /\ last'.call \notin inflight'

\* C25: no double settlement. A pending entry leaves the map exactly when a
\* withdrawal that covers it has succeeded (or was simulated), and its commitment
\* can never enter again; so every payment in the batch of a call that succeeds
\* must still be pending at that moment, and the call's total is at most the
\* lamports still pending - also when the call was issued by a tick that fired
\* while an earlier call was in flight.
C25_NoDoubleSettlement ==
    [][ResolveStep =>
         /\ \A p \in last'.call.batch :
               /\ p.commitment \in DOMAIN pendingPayments
               /\ pendingPayments[p.commitment] = p
         /\ last'.call.lamports <= PendingLamports]_vars

\* C26: in the prototype server no commitment gets the premium content twice,
\* however the requests presenting it are interleaved: of the requests that pass
\* the used-commitment check for one commitment at most one is answered 200.
C26_PrototypeAtMostOnce ==
    \A c \in Commitments : hist[c].ok <= 1

\* the request with the four members verifyPayment does not read set to fixed values
Canonical(req) ==
    [req EXCEPT !.xPayment.x402Version = 1,
                !.xPayment.payload.commitment = "c1",
                !.xPayment.payload.timestamp = 0,
                !.xPayment.payload.balanceProof.wallet = "w1"]

\* C27: the outcome, the response and the ledger after a request are those of
\* the request that differs from it only in payload.commitment,
\* payload.timestamp, x402Version and the proof's wallet; and a payment whose
\* embedded commitment is not the header's, or whose proof wallet is not the
\* wallet header's, is accepted when the other checks pass.
C27_UnreadFields ==
    /\ [][RequestStep =>
            LET outcome == verifyPayment(Canonical(last'.req), usedCommitments, now)
            IN /\ last'.outcome = outcome
               /\ last'.response = Respond(outcome)
               /\ usedCommitments' =
                     IF outcome.result = "Ok"
                     THEN usedCommitments \cup {last'.req.commitment}
                     ELSE usedCommitments
               /\ pendingPayments' =
                     IF outcome.result = "Ok"
                     THEN SetPending(pendingPayments, last'.req.commitment,
                                     last'.req.walletAddress, now)
                     ELSE pendingPayments]_vars
    /\ [][(RequestStep
           /\ OtherwiseValid(last'.req, now)
           /\ last'.req.commitment \notin usedCommitments
           /\ \/ last'.req.xPayment.payload.commitment # last'.req.commitment
              \/ last'.req.xPayment.payload.balanceProof.wallet # last'.req.walletAddress) =>
            /\ last'.outcome.result = "Ok"
            /\ last'.req.commitment \in DOMAIN pendingPayments']_vars

\* a payment is granted for commitment c2 from wallet w2 whose payload embeds
\* commitment c1, carries version 2 and timestamp 0, and whose proof names w1
C27_Witness ==
    /\ last.op = "request"
    /\ last.outcome.result = "Ok"
    /\ last.req.commitment = "c2"
    /\ last.req.walletAddress = "w2"
    /\ last.req.xPayment.payload.commitment = "c1"
    /\ last.req.xPayment.payload.balanceProof.wallet = "w1"
    /\ last.req.xPayment.x402Version = 2
    /\ last.req.xPayment.payload.timestamp = 0
    /\ "c2" \in DOMAIN pendingPayments

\* the request with the same X-Payment blob, hash apart, for commitment d
Presenting(req, d) ==
    [req EXCEPT !.commitment = d, !.xPayment.payload.noteHash = hashNote(d)]

\* C28: a fresh proof claiming at least the price is accepted for every unused
\* commitment it is presented with, however many payments were granted before,
\* and after a grant the same proof would be accepted again for every
\* commitment still unused: the grants on one proof are not bounded by the
\* balance it claims.
C28_ProofNotConsumed ==
    [][(RequestStep
        /\ OtherwiseValid(last'.req, now)
        /\ last'.req.commitment \notin usedCommitments) =>
         /\ last'.outcome.result = "Ok"
         /\ verifyBalance(last'.req.xPayment.payload.balanceProof, ApiPrice, now')
         /\ \A d \in Commitments \ usedCommitments' :
               verifyPayment(Presenting(last'.req, d), usedCommitments', now').result
                  = "Ok"]_vars

\* two payments are pending that were granted at the same instant, hence on
\* the same proof, and the proof claims the price of one
C28_Witness ==
    /\ last.op = "request"
    /\ last.outcome.result = "Ok"
    /\ last.req.xPayment.payload.balanceProof = FreshProof(ApiPrice, now)
    /\ DOMAIN pendingPayments = Commitments
    /\ \A c \in Commitments : pendingPayments[c].timestamp = now
    /\ PendingLamports > last.req.xPayment.payload.balanceProof.balance

\* a handler answers a request in this step
RouteStep == nRequests' = nRequests + 1 /\ last'.op = "request"

\* C29: the handlers of one server share its ledger. A commitment accepted
\* through one handler is rejected as DoubleSpend by every other handler of the
\* same server, a payment granted by any handler is in the server's one pending
\* map, and the server's tick settles the payments of all its handlers in one
\* batch.
C29_SharedLedger ==
    /\ [][(RouteStep /\ OtherwiseValid(last'.req, now)) =>
            LET s == servers[last'.server]
                c == last'.req.commitment
            IN /\ handlers[last'.handler].server = last'.server
               /\ (c \in s.usedCommitments /\ s.grantedBy[c] # last'.handler) =>
                     /\ last'.outcome.result = "DoubleSpend"
                     /\ servers' = servers
               /\ c \notin s.usedCommitments =>
                     /\ last'.outcome.result = "Ok"
                     /\ DOMAIN servers'[last'.server].pendingPayments
                           = DOMAIN s.pendingPayments \cup {c}]_vars
    /\ [][(nTicks' = nTicks + 1) =>
            LET s == servers[last'.server]
            IN /\ last'.batch = {s.pendingPayments[c] : c \in DOMAIN s.pendingPayments}
               /\ servers'[last'.server].pendingPayments = <<>>]_vars
    /\ [][(handlers' # handlers /\ servers' = servers) =>
            /\ handlers' = Append(handlers, [server |-> last'.server])
            /\ last'.server \in DOMAIN servers]_vars

\* a server with two handlers: the commitment whose payment one of them granted,
\* still pending on the server, was just refused by the other
C29_Witness ==
    /\ last.op = "request"
    /\ last.outcome.result = "DoubleSpend"
    /\ LET s == servers[last.server]
           c == last.req.commitment
       IN /\ s.grantedBy[c] # last.handler
          /\ handlers[s.grantedBy[c]].server = last.server
          /\ handlers[last.handler].server = last.server
          /\ c \in DOMAIN s.pendingPayments

\* C30: every instance has its own used set, pending map and timer. A request
\* is judged on the used set of its handler's server alone, so a commitment
\* another instance accepted is accepted once more, and once only; a request, a
\* tick or a stop changes the fields of its own server and of no other; a new
\* instance starts empty with its timer running and leaves the others as they
\* are.
C30_PerInstance ==
    /\ [][(RouteStep /\ OtherwiseValid(last'.req, now)) =>
            LET s == servers[last'.server]
                c == last'.req.commitment
            IN /\ c \notin s.usedCommitments =>
                     /\ last'.outcome.result = "Ok"
                     /\ c \in servers'[last'.server].usedCommitments
                     /\ c \in DOMAIN servers'[last'.server].pendingPayments
               /\ c \in s.usedCommitments => last'.outcome.result = "DoubleSpend"]_vars
    /\ [][\A j \in DOMAIN servers :
            servers'[j] # servers[j] =>
                /\ last'.op \in {"request", "tick", "stop"}
                /\ last'.server = j]_vars
    /\ [][(DOMAIN servers' # DOMAIN servers) =>
            /\ servers' = Append(servers, NewServer)
            /\ handlers' = Append(handlers, [server |-> Len(servers')])]_vars

\* two instances have each accepted commitment c1, the second just now; the
\* payment is settled in the first, whose timer is then stopped, and pending in
\* the second, whose timer runs
C30_Witness ==
    /\ Len(servers) = 2
    /\ last.op = "request"
    /\ last.server = 2
    /\ last.outcome.result = "Ok"
    /\ last.req.commitment = "c1"
    /\ "c1" \in servers[1].usedCommitments
    /\ "c1" \notin DOMAIN servers[1].pendingPayments
    /\ "c1" \in DOMAIN servers[2].pendingPayments
    /\ servers[1].withdrawalInterval = "cleared"
    /\ servers[2].withdrawalInterval = "active"

\* C31: a proof of sufficient balance stamped after the server's clock is
\* accepted, and it is accepted at every later instant up to its timestamp plus
\* the validity window, and at none after that.
C31_OneSidedFreshness ==
    (CheckedSufficient /\ last.at - last.balanceProof.timestamp < 0) =>
        LET proof == last.balanceProof
            expiry == proof.timestamp + BALANCE_PROOF_VALIDITY_MS
        IN /\ last.result
           /\ \A t \in {last.at, proof.timestamp - 1, proof.timestamp, proof.timestamp + 1,
                        last.at + WithdrawalIntervalMs, expiry - 1, expiry} :
                 verifyBalance(proof, last.required, t)
           /\ \A t \in {expiry + 1, expiry + WithdrawalIntervalMs} :
                 ~verifyBalance(proof, last.required, t)

\* after the clock advanced, a proof of the exact price stamped one millisecond
\* ahead of it was accepted
C31_Witness ==
    /\ CheckedSufficient
    /\ last.at > StartTime
    /\ last.balanceProof.timestamp = last.at + 1
    /\ last.balanceProof.balance = ApiPrice
    /\ last.result

\* C33: in mock mode the client's balance is never negative and is the lamports
\* deposited less the lamports paid, however the calls of deposit,
\* generatePayment and payForAccess interleave; and a generatePayment that finds
\* the balance below the quoted amount fails with InsufficientBalanceError and
\* leaves the balance as it is.
C33_MockBalance ==
    /\ []((client.built /\ client.mockMode) =>
            /\ client.mockBalance >= 0
            /\ client.mockBalance = client.deposited - client.paid)
    /\ [][(client.built /\ client.mockMode
           /\ last'.op = "generatePayment" /\ "error" \in DOMAIN last'
           /\ last'.error = "InsufficientBalance") =>
            /\ client'.mockBalance = client.mockBalance
            /\ last'.available < last'.required]_vars
    /\ [][(client.built /\ client.mockMode /\ client.initialized
           /\ \E h \in inflight \ inflight' :
                 /\ h.method = "generatePayment"
                 /\ client.mockBalance < h.amount) =>
            /\ "error" \in DOMAIN last'
            /\ last'.error = "InsufficientBalance"
            /\ client'.mockBalance = client.mockBalance]_vars

\* C33, what holds whatever the interleaving: the balance is the lamports
\* deposited less the lamports paid, and a failed generatePayment leaves it alone
C33_MockBalanceAccounting ==
    /\ []((client.built /\ client.mockMode) =>
            client.mockBalance = client.deposited - client.paid)
    /\ [][(client.built /\ client.mockMode
           /\ last'.op = "generatePayment" /\ "error" \in DOMAIN last') =>
            client'.mockBalance = client.mockBalance]_vars

\* a method of the client is called in this step
CallStep == client.built /\ client'.calls = client.calls + 1

\* C34: while initialize() has not completed, getPrivateBalance, deposit,
\* generatePayment and payForAccess fail with the 'Client not initialized' error,
\* change no balance, issue no network request and leave nothing suspended;
\* initialize() on an initialized client changes nothing.
C34_InitializationGate ==
    /\ [][(CallStep /\ ~client.initialized
           /\ last'.op \in {"getPrivateBalance", "deposit", "generatePayment",
                            "payForAccess"}) =>
            /\ "error" \in DOMAIN last'
            /\ last'.error = NotInitializedError
            /\ client' = [client EXCEPT !.calls = @ + 1]
            /\ inflight' = inflight]_vars
    /\ [][(CallStep /\ client.initialized /\ last'.op = "initialize") =>
            /\ last'.result = "already"
            /\ client' = [client EXCEPT !.calls = @ + 1]
            /\ inflight' = inflight]_vars
    /\ []((client.built /\ ~client.initialized) =>
            /\ client.mockBalance = 0
            /\ client.poolBalance = 0
            /\ client.fetches = 0
            /\ \A h \in inflight : h.method = "initialize")

\* payForAccess has just failed on a client whose initialize() is suspended at
\* the loading of the hasher, after another method was refused too
C34_Witness ==
    /\ client.built
    /\ ~client.mockMode
    /\ ~client.initialized
    /\ \E h \in inflight : h.pc = "wasm"
    /\ client.calls = 3
    /\ last.op = "payForAccess"
    /\ last.error = NotInitializedError
    /\ client.fetches = 0

\* C32: the headers generatePayment returns carry the scheme the server expects
\* and the hash of their commitment, and the server never answers them with
\* InvalidPayment or a fault; sent for the first time by a client of the
\* server's network, with a proof of at least apiPrice that is within its
\* validity window, they are granted; sent again after that, they get DoubleSpend.
C32_ClientServerAgreement ==
    /\ []((last.op = "generatePayment" /\ "headers" \in DOMAIN last) =>
            /\ last.headers.xPayment.scheme = "privacycash"
            /\ last.headers.xPayment.payload.noteHash = hashNote(last.headers.commitment)
            /\ last.headers.xPayment.payload.balanceProof.balance >= last.amount)
    /\ [][RequestStep =>
            last'.outcome.result \in
                {"Ok", "NetworkMismatch", "InsufficientBalance", "DoubleSpend"}]_vars
    /\ [][(RequestStep /\ last.op = "generatePayment"
           /\ client.network = network
           /\ last.headers.xPayment.payload.balanceProof.balance >= ApiPrice
           /\ now - last.headers.xPayment.payload.balanceProof.timestamp
                 <= BALANCE_PROOF_VALIDITY_MS) =>
            /\ last'.req = last.headers
            /\ last'.outcome.result = "Ok"]_vars
    /\ [][(RequestStep /\ last.op = "request" /\ last.outcome.result = "Ok") =>
            /\ last'.req = last.req
            /\ last'.outcome.result = "DoubleSpend"]_vars

\* headers granted at the end of their proof's validity window were sent again
\* and refused as a double spend
C32_Witness ==
    /\ last.op = "request"
    /\ last.outcome.result = "DoubleSpend"
    /\ last.req.commitment \in client.generated
    /\ last.req.commitment \in DOMAIN pendingPayments
    /\ pendingPayments[last.req.commitment].timestamp
          = last.req.xPayment.payload.balanceProof.timestamp + BALANCE_PROOF_VALIDITY_MS

\* ---- ephemeral payment sessions ----

MaxSessionCalls == 3

\* 5 * 60 * 1000
SessionTtlMs == 300000

\* "constructor" stands for the names every plain object inherits
SessionIds == {"s1", "s2", "constructor"}
ObjectPrototypeKeys == {"constructor"}

\* the value of a member the object does not have
NoEntry == [type |-> Undefined]

\* paymentSessions[sessionId]: the own entry; else the member inherited from
\* Object.prototype, which is no session and has no expiresAt; else undefined
Lookup(store, sessionId) ==
    IF sessionId \in DOMAIN store THEN store[sessionId]
    ELSE IF sessionId \in ObjectPrototypeKeys THEN [inherited |-> sessionId]
    ELSE NoEntry

\* paymentSessions[sessionId] = session
Store(store, sessionId, session) ==
    [k \in DOMAIN store \cup {sessionId} |->
        IF k = sessionId THEN session ELSE store[k]]

\* Date.now() > session.expiresAt, false when expiresAt is undefined
Expired(session, t) ==
    "expiresAt" \in DOMAIN session /\ t > session.expiresAt

\* what getPaymentSession(sessionId) does at time t
getPaymentSession(store, sessionId, t) ==
    LET session == Lookup(store, sessionId)
    IN  IF session = NoEntry
        THEN [op |-> "getPaymentSession", id |-> sessionId,
              error |-> "Session not found"]
        ELSE IF Expired(session, t)
        THEN [op |-> "getPaymentSession", id |-> sessionId,
              error |-> "Session expired"]
        ELSE [op |-> "getPaymentSession", id |-> sessionId, session |-> session]

SessionsUnchanged ==
    UNCHANGED <<client, servers, handlers, network, merchantClient, usedCommitments,
                pendingPayments, withdrawalInterval, inflight, hist, nRequests, nTicks>>

\* createEphemeralPaymentSession up to its await: the wallet is generated, the
\* token address is being derived
createEphemeralPaymentSession ==
    /\ sessions.calls < MaxSessionCalls
    /\ \E sessionId \in SessionIds :
         sessions' = [sessions EXCEPT
                        !.creating = @ \cup {[id |-> sessionId,
                                              tokenAccount |-> sessions.calls + 1]},
                        !.calls = @ + 1]
    /\ UNCHANGED <<now, last>>
    /\ SessionsUnchanged

\* createEphemeralPaymentSession after its await: the session expires five
\* minutes from now and is stored under its id
SessionCreated ==
    /\ \E c \in sessions.creating :
         LET session == [tokenAccount |-> c.tokenAccount,
                         expiresAt |-> now + SessionTtlMs]
         IN  /\ sessions' = [sessions EXCEPT
                               !.store = Store(@, c.id, session),
                               !.creating = @ \ {c}]
             /\ last' = [op |-> "createEphemeralPaymentSession", id |-> c.id,
                         session |-> session]
    /\ UNCHANGED now
    /\ SessionsUnchanged

GetPaymentSession ==
    /\ sessions.calls < MaxSessionCalls
    /\ \E sessionId \in SessionIds :
         last' = getPaymentSession(sessions.store, sessionId, now)
    /\ sessions' = [sessions EXCEPT !.calls = @ + 1]
    /\ UNCHANGED now
    /\ SessionsUnchanged

NextSessions ==
    \/ createEphemeralPaymentSession
    \/ SessionCreated
    \/ GetPaymentSession
    \/ ClockAdvances

SpecSessions == InitInstances /\ [][NextSessions]_vars

GetStep ==
    /\ last'.op = "getPaymentSession"
    /\ sessions'.calls = sessions.calls + 1
    /\ sessions'.creating = sessions.creating

CreatedStep == sessions'.creating # sessions.creating /\ sessions'.calls = sessions.calls

\* getPaymentSession(id) for an id of ids: the stored session is returned if and
\* only if one was created under id and now is not past its expiresAt, else the
\* call fails with 'Session not found' or 'Session expired'; the store is
\* unchanged. A created session expires 5 minutes after its creation and takes
\* the place of the one stored under its id; no entry is ever removed.
GetReturnsLive(ids) ==
    (GetStep /\ last'.id \in ids) =>
        LET id == last'.id
            live == id \in DOMAIN sessions.store
                    /\ ~ (now > sessions.store[id].expiresAt)
        IN  /\ sessions'.store = sessions.store
            /\ ("session" \in DOMAIN last') <=> live
            /\ live => last'.session = sessions.store[id]
            /\ ~ live =>
                 last'.error = IF id \in DOMAIN sessions.store
                               THEN "Session expired" ELSE "Session not found"

CreateReplaces ==
    /\ CreatedStep =>
         /\ last'.id \in DOMAIN sessions'.store
         /\ sessions'.store[last'.id] = last'.session
         /\ last'.session.expiresAt = now + SessionTtlMs
         /\ \A k \in DOMAIN sessions.store \ {last'.id} :
               sessions'.store[k] = sessions.store[k]
    /\ DOMAIN sessions.store \subseteq DOMAIN sessions'.store

\* C35: getPaymentSession(id) returns the stored session if and only if a session
\* was created under id and the current time is not past its expiresAt (creation
\* time + 5 minutes); otherwise it fails with 'Session not found' or 'Session
\* expired' and leaves the store unchanged; creating under an existing id
\* replaces the old session, and expired sessions are never removed.
C35_SessionLookup == [][GetReturnsLive(SessionIds) /\ CreateReplaces]_vars

\* the same for ids that name no member of Object.prototype
C35_SessionLookupOwnNames ==
    [][GetReturnsLive(SessionIds \ ObjectPrototypeKeys) /\ CreateReplaces]_vars

====
